---------------------------- MODULE Spec2Model ----------------------------
(***************************************************************************)
(* PharmaDocs AI, browser-side interaction layer.                          *)
(*                                                                         *)
(* The controllers of the repository as state machines:                    *)
(*   - AMVManager               (src/static/js/auth/login.js)              *)
(*   - FileUploadManager        (src/static/js/file-upload.js)             *)
(*   - DocumentCreationManager  (src/unnamed/part_000)                     *)
(* Every handler is one action.  Text values are TLA+ strings; numbers     *)
(* read by parseFloat are IEEE-754 doubles [nan, inf, neg, m, e], the      *)
(* value m * 2^e with m a natural number of at most 53 bits.               *)
(***************************************************************************)
EXTENDS Integers, Sequences, FiniteSets, TLC

(***************************************************************************)
(* JavaScript string and number primitives used by the handlers.           *)
(***************************************************************************)

CharAt(s, i) == SubSeq(s, i, i)

\* the white space and line terminators of ECMAScript, which trim, parseFloat
\* and \s take for blank: U+0009 to U+000D, U+0020, U+00A0, U+1680 and U+FEFF.
\* (U+2000 to U+200A, U+2028, U+2029, U+202F, U+205F and U+3000 are blank too;
\* no string of this module holds them: a string literal takes a character
\* above U+00FF only when the low byte of its code is 80 or more.)
WhiteSpace == "\t\n\f\r   ﻿"

WhiteSpaceSet == {CharAt(WhiteSpace, i) : i \in 1..Len(WhiteSpace)}

IsSpace(c) == c \in WhiteSpaceSet

Digits == <<"0", "1", "2", "3", "4", "5", "6", "7", "8", "9">>

IsDigit(c) == \E k \in 1..10 : Digits[k] = c

DigitVal(c) == (CHOOSE k \in 1..10 : Digits[k] = c) - 1

RECURSIVE TrimLeft(_)
TrimLeft(s) ==
    IF Len(s) > 0 /\ IsSpace(CharAt(s, 1)) THEN TrimLeft(Tail(s)) ELSE s

RECURSIVE TrimRight(_)
TrimRight(s) ==
    IF Len(s) > 0 /\ IsSpace(CharAt(s, Len(s)))
    THEN TrimRight(SubSeq(s, 1, Len(s) - 1))
    ELSE s

\* String.prototype.trim
Trim(s) == TrimRight(TrimLeft(s))

\* String.prototype.includes
Includes(s, part) ==
    \E i \in 1..(Len(s) - Len(part) + 1) : SubSeq(s, i, i + Len(part) - 1) = part

UpperCase == <<"A", "B", "C", "D", "E", "F", "G", "H", "I", "J", "K", "L", "M",
               "N", "O", "P", "Q", "R", "S", "T", "U", "V", "W", "X", "Y", "Z">>
LowerCase == <<"a", "b", "c", "d", "e", "f", "g", "h", "i", "j", "k", "l", "m",
               "n", "o", "p", "q", "r", "s", "t", "u", "v", "w", "x", "y", "z">>

\* A string literal of this module holds a character of a code above 255 only
\* when the low byte of the code is 128 or more.  The lower-case letters
\* toLowerCase writes that it cannot hold (U+0253 for U+0181, U+2D00 for
\* U+10A0, ...) are held as private-use characters: the k-th code of
\* UnwrittenCodes as the k-th character of Unwritten, which is U+E080 + k - 1.
\* A string that holds one of these private-use characters itself is taken
\* for one that holds the letter.
UnwrittenCodes ==
    <<595, 596, 598, 599, 601, 603, 604, 608, 609, 611, 612, 613, 614,
      616, 617, 618, 620, 623, 626, 629, 891, 892, 893, 8048, 8049, 8050,
      8051, 8052, 8053, 8054, 8055, 8056, 8057, 8058, 8059, 8060, 8061,
      11520, 11521, 11522, 11523, 11524, 11525, 11526, 11527, 11528,
      11529, 11530, 11531, 11532, 11533, 11534, 11535, 11536, 11537,
      11538, 11539, 11540, 11541, 11542, 11543, 11544, 11545, 11546,
      11547, 11548, 11549, 11550, 11551, 11552, 11553, 11554, 11555,
      11556, 11557, 11559, 11565, 43859, 43888, 43889, 43890, 43891,
      43892, 43893, 43894, 43895, 43896, 43897, 43898, 43899, 43900,
      43901, 43902, 43903>>

Unwritten == ""

\* the letters above U+007F that toLowerCase changes and what it writes for
\* them (Unicode simple and special case mappings), U+03A3 apart, for every
\* letter a string of this module can hold
CasedUpper == "ÀÁÂÃÄÅÆÇÈÉÊËÌÍÎÏÐÑÒÓÔÕÖØÙÚÛÜÝÞƁƂƄƆƇƉƊƋƎƏƐƑƓƔƖƗƘƜƝƟƠƢƤƦƧƩƬƮƯƱƲƳƵƷƸƼǄǅǇǈǊǋǍǏǑǓǕǗǙǛǞǠǢǤǦǨǪǬǮǱǲǴǶǷǸǺǼǾΆΈΉΊΌΎΏΑΒΓΔΕΖΗΘΙΚΛΜΝΞΟΠΡΤΥΦΧΨΩΪΫϏϘϚϜϞϠϢϤϦϨϪϬϮϴϷϹϺϽϾϿҀҊҌҎҐҒҔҖҘҚҜҞҠҢҤҦҨҪҬҮҰҲҴҶҸҺҼҾӀӁӃӅӇӉӋӍӐӒӔӖӘӚӜӞӠӢӤӦӨӪӬӮӰӲӴӶӸӺӼӾႠႡႢႣႤႥႦႧႨႩႪႫႬႭႮႯႰႱႲႳႴႵႶႷႸႹႺႻႼႽႾႿჀჁჂჃჄჅჇჍᎠᎡᎢᎣᎤᎥᎦᎧᎨᎩᎪᎫᎬᎭᎮᎯᎰᎱᎲᎳᎴᎵᎶᎷᎸᎹᎺᎻᎼᎽᎾᎿᏀᏁᏂᏃᏄᏅᏆᏇᏈᏉᏊᏋᏌᏍᏎᏏᏐᏑᏒᏓᏔᏕᏖᏗᏘᏙᏚᏛᏜᏝᏞᏟᏠᏡᏢᏣᏤᏥᏦᏧᏨᏩᏪᏫᏬᏭᏮᏯᏰᏱᏲᏳᏴᏵᲉᲐᲑᲒᲓᲔᲕᲖᲗᲘᲙᲚᲛᲜᲝᲞᲟᲠᲡᲢᲣᲤᲥᲦᲧᲨᲩᲪᲫᲬᲭᲮᲯᲰᲱᲲᲳᲴᲵᲶᲷᲸᲹᲺᲽᲾᲿẀẂẄẆẈẊẌẎẐẒẔẞẠẢẤẦẨẪẬẮẰẲẴẶẸẺẼẾỀỂỄỆỈỊỌỎỐỒỔỖỘỚỜỞỠỢỤỦỨỪỬỮỰỲỴỶỸỺỼỾᾈᾉᾊᾋᾌᾍᾎᾏᾘᾙᾚᾛᾜᾝᾞᾟᾨᾩᾪᾫᾬᾭᾮᾯᾸᾹᾺΆᾼῈΈῊΉῌῘῙῚΊῨῩῪΎῬῸΌῺΏῼↃⒶⒷⒸⒹⒺⒻⒼⒽⒾⒿⓀⓁⓂⓃⓄⓅⓆⓇⓈⓉⓊⓋⓌⓍⓎⓏⲀⲂⲄⲆⲈⲊⲌⲎⲐⲒⲔⲖⲘⲚⲜⲞⲠⲢⲤⲦⲨⲪⲬⲮⲰⲲⲴⲶⲸⲺⲼⲾⳀⳂⳄⳆⳈⳊⳌⳎⳐⳒⳔⳖⳘⳚⳜⳞⳠⳢⳫⳭⳲꚀꚂꚄꚆꚈꚊꚌꚎꚐꚒꚔꚖꚘꚚꞀꞂꞄꞆꞋꞍꞐꞒꞖꞘꞚꞜꞞꞠꞢꞤꞦꞨꞪꞫꞬꞭꞮꞰꞱꞲꞳꞴꞶꞸꞺꞼꞾꟀꟂꟄꟅꟆꟇꟉꟋꟌ꟎Ꟑ꟒꟔ꟖꟘꟚꟜꟵ"

CasedLower == "àáâãäåæçèéêëìíîïðñòóôõöøùúûüýþƃƅƈƌǝƒƙơƣƥʀƨʃƭʈưʊʋƴƶʒƹƽǆǆǉǉǌǌǎǐǒǔǖǘǚǜǟǡǣǥǧǩǫǭǯǳǳǵƕƿǹǻǽǿάέήίόύώαβγδεζηθικλμνξοπρτυφχψωϊϋϗϙϛϝϟϡϣϥϧϩϫϭϯθϸϲϻҁҋҍҏґғҕҗҙқҝҟҡңҥҧҩҫҭүұҳҵҷҹһҽҿӏӂӄӆӈӊӌӎӑӓӕӗәӛӝӟӡӣӥӧөӫӭӯӱӳӵӷӹӻӽӿꮀꮁꮂꮃꮄꮅꮆꮇꮈꮉꮊꮋꮌꮍꮎꮏꮐꮑꮒꮓꮔꮕꮖꮗꮘꮙꮚꮛꮜꮝꮞꮟꮠꮡꮢꮣꮤꮥꮦꮧꮨꮩꮪꮫꮬꮭꮮꮯꮰꮱꮲꮳꮴꮵꮶꮷꮸꮹꮺꮻꮼꮽꮾꮿᏸᏹᏺᏻᏼᏽᲊაბგდევზთიკლმნოპჟრსტუფქღყშჩცძწჭხჯჰჱჲჳჴჵჶჷჸჹჺჽჾჿẁẃẅẇẉẋẍẏẑẓẕßạảấầẩẫậắằẳẵặẹẻẽếềểễệỉịọỏốồổỗộớờởỡợụủứừửữựỳỵỷỹỻỽỿᾀᾁᾂᾃᾄᾅᾆᾇᾐᾑᾒᾓᾔᾕᾖᾗᾠᾡᾢᾣᾤᾥᾦᾧᾰᾱᾳῃῐῑῠῡῥῳↄⓐⓑⓒⓓⓔⓕⓖⓗⓘⓙⓚⓛⓜⓝⓞⓟⓠⓡⓢⓣⓤⓥⓦⓧⓨⓩⲁⲃⲅⲇⲉⲋⲍⲏⲑⲓⲕⲗⲙⲛⲝⲟⲡⲣⲥⲧⲩⲫⲭⲯⲱⲳⲵⲷⲹⲻⲽⲿⳁⳃⳅⳇⳉⳋⳍⳏⳑⳓⳕⳗⳙⳛⳝⳟⳡⳣⳬⳮⳳꚁꚃꚅꚇꚉꚋꚍꚏꚑꚓꚕꚗꚙꚛꞁꞃꞅꞇꞌꞑꞓꞗꞙꞛꞝꞟꞡꞣꞥꞧꞩʞʇʝꞵꞷꞹꞻꞽꞿꟁꟃꞔʂᶎꟈꟊꟍ꟏ꟑꟓꟕꟗꟙꟛƛꟶ"

CasedUpperSet == {CharAt(CasedUpper, k) : k \in 1..Len(CasedUpper)}

LowerChar(c) ==
    IF \E k \in 1..26 : UpperCase[k] = c
    THEN LowerCase[CHOOSE k \in 1..26 : UpperCase[k] = c]
    ELSE IF c \in CasedUpperSet
    THEN CharAt(CasedLower, CHOOSE k \in 1..Len(CasedUpper) : CharAt(CasedUpper, k) = c)
    ELSE c

\* the characters with the Unicode property Cased that are not Case_Ignorable
\* (above U+007F; A to Z and a to z are cased too)
CasedLetters == "ªµºÀÁÂÃÄÅÆÇÈÉÊËÌÍÎÏÐÑÒÓÔÕÖØÙÚÛÜÝÞßàáâãäåæçèéêëìíîïðñòóôõöøùúûüýþÿƀƁƂƃƄƅƆƇƈƉƊƋƌƍƎƏƐƑƒƓƔƕƖƗƘƙƚƛƜƝƞƟƠơƢƣƤƥƦƧƨƩƪƫƬƭƮƯưƱƲƳƴƵƶƷƸƹƺƼƽƾƿǄǅǆǇǈǉǊǋǌǍǎǏǐǑǒǓǔǕǖǗǘǙǚǛǜǝǞǟǠǡǢǣǤǥǦǧǨǩǪǫǬǭǮǯǰǱǲǳǴǵǶǷǸǹǺǻǼǽǾǿʀʁʂʃʄʅʆʇʈʉʊʋʌʍʎʏʐʑʒʓʖʗʘʙʚʛʜʝʞʟʠʡʢʣʤʥʦʧʨʩʪʫʬʭʮʯΆΈΉΊΌΎΏΐΑΒΓΔΕΖΗΘΙΚΛΜΝΞΟΠΡΣΤΥΦΧΨΩΪΫάέήίΰαβγδεζηθικλμνξοπρςστυφχψωϊϋόύώϏϐϑϒϓϔϕϖϗϘϙϚϛϜϝϞϟϠϡϢϣϤϥϦϧϨϩϪϫϬϭϮϯϰϱϲϳϴϵϷϸϹϺϻϼϽϾϿҀҁҊҋҌҍҎҏҐґҒғҔҕҖҗҘҙҚқҜҝҞҟҠҡҢңҤҥҦҧҨҩҪҫҬҭҮүҰұҲҳҴҵҶҷҸҹҺһҼҽҾҿӀӁӂӃӄӅӆӇӈӉӊӋӌӍӎӏӐӑӒӓӔӕӖӗӘәӚӛӜӝӞӟӠӡӢӣӤӥӦӧӨөӪӫӬӭӮӯӰӱӲӳӴӵӶӷӸӹӺӻӼӽӾӿրցւփքօֆևֈႠႡႢႣႤႥႦႧႨႩႪႫႬႭႮႯႰႱႲႳႴႵႶႷႸႹႺႻႼႽႾႿჀჁჂჃჄჅჇჍაბგდევზთიკლმნოპჟრსტუფქღყშჩცძწჭხჯჰჱჲჳჴჵჶჷჸჹჺჽჾჿᎠᎡᎢᎣᎤᎥᎦᎧᎨᎩᎪᎫᎬᎭᎮᎯᎰᎱᎲᎳᎴᎵᎶᎷᎸᎹᎺᎻᎼᎽᎾᎿᏀᏁᏂᏃᏄᏅᏆᏇᏈᏉᏊᏋᏌᏍᏎᏏᏐᏑᏒᏓᏔᏕᏖᏗᏘᏙᏚᏛᏜᏝᏞᏟᏠᏡᏢᏣᏤᏥᏦᏧᏨᏩᏪᏫᏬᏭᏮᏯᏰᏱᏲᏳᏴᏵᏸᏹᏺᏻᏼᏽᲀᲁᲂᲃᲄᲅᲆᲇᲈᲉᲊᲐᲑᲒᲓᲔᲕᲖᲗᲘᲙᲚᲛᲜᲝᲞᲟᲠᲡᲢᲣᲤᲥᲦᲧᲨᲩᲪᲫᲬᲭᲮᲯᲰᲱᲲᲳᲴᲵᲶᲷᲸᲹᲺᲽᲾᲿᶀᶁᶂᶃᶄᶅᶆᶇᶈᶉᶊᶋᶌᶍᶎᶏᶐᶑᶒᶓᶔᶕᶖᶗᶘᶙᶚẀẁẂẃẄẅẆẇẈẉẊẋẌẍẎẏẐẑẒẓẔẕẖẗẘẙẚẛẜẝẞẟẠạẢảẤấẦầẨẩẪẫẬậẮắẰằẲẳẴẵẶặẸẹẺẻẼẽẾếỀềỂểỄễỆệỈỉỊịỌọỎỏỐốỒồỔổỖỗỘộỚớỜờỞởỠỡỢợỤụỦủỨứỪừỬửỮữỰựỲỳỴỵỶỷỸỹỺỻỼỽỾỿᾀᾁᾂᾃᾄᾅᾆᾇᾈᾉᾊᾋᾌᾍᾎᾏᾐᾑᾒᾓᾔᾕᾖᾗᾘᾙᾚᾛᾜᾝᾞᾟᾠᾡᾢᾣᾤᾥᾦᾧᾨᾩᾪᾫᾬᾭᾮᾯᾰᾱᾲᾳᾴᾶᾷᾸᾹᾺΆᾼιῂῃῄῆῇῈΈῊΉῌῐῑῒΐῖῗῘῙῚΊῠῡῢΰῤῥῦῧῨῩῪΎῬῲῳῴῶῷῸΌῺΏῼↃↄⒶⒷⒸⒹⒺⒻⒼⒽⒾⒿⓀⓁⓂⓃⓄⓅⓆⓇⓈⓉⓊⓋⓌⓍⓎⓏⓐⓑⓒⓓⓔⓕⓖⓗⓘⓙⓚⓛⓜⓝⓞⓟⓠⓡⓢⓣⓤⓥⓦⓧⓨⓩⲀⲁⲂⲃⲄⲅⲆⲇⲈⲉⲊⲋⲌⲍⲎⲏⲐⲑⲒⲓⲔⲕⲖⲗⲘⲙⲚⲛⲜⲝⲞⲟⲠⲡⲢⲣⲤⲥⲦⲧⲨⲩⲪⲫⲬⲭⲮⲯⲰⲱⲲⲳⲴⲵⲶⲷⲸⲹⲺⲻⲼⲽⲾⲿⳀⳁⳂⳃⳄⳅⳆⳇⳈⳉⳊⳋⳌⳍⳎⳏⳐⳑⳒⳓⳔⳕⳖⳗⳘⳙⳚⳛⳜⳝⳞⳟⳠⳡⳢⳣⳤⳫⳬⳭⳮⳲⳳꚀꚁꚂꚃꚄꚅꚆꚇꚈꚉꚊꚋꚌꚍꚎꚏꚐꚑꚒꚓꚔꚕꚖꚗꚘꚙꚚꚛꞀꞁꞂꞃꞄꞅꞆꞇꞋꞌꞍꞎꞐꞑꞒꞓꞔꞕꞖꞗꞘꞙꞚꞛꞜꞝꞞꞟꞠꞡꞢꞣꞤꞥꞦꞧꞨꞩꞪꞫꞬꞭꞮꞯꞰꞱꞲꞳꞴꞵꞶꞷꞸꞹꞺꞻꞼꞽꞾꞿꟀꟁꟂꟃꟄꟅꟆꟇꟈꟉꟊꟋꟌꟍ꟎꟏Ꟑꟑ꟒ꟓ꟔ꟕꟖꟗꟘꟙꟚꟛꟜꟵꟶꟺꮀꮁꮂꮃꮄꮅꮆꮇꮈꮉꮊꮋꮌꮍꮎꮏꮐꮑꮒꮓꮔꮕꮖꮗꮘꮙꮚꮛꮜꮝꮞꮟꮠꮡꮢꮣꮤꮥꮦꮧꮨꮩꮪꮫꮬꮭꮮꮯꮰꮱꮲꮳꮴꮵꮶꮷꮸꮹꮺꮻꮼꮽꮾꮿ"

\* the characters with the Unicode property Case_Ignorable (the grave accent
\* is one more; no string literal takes it)
CaseIgnorables == "'.:^¨­¯´·¸ʰʱʲʳʴʵʶʷʸʹʺʻʼʽʾʿˀˁ˂˃˄˅ˆˇˈˉˊˋˌˍˎˏːˑ˒˓˔˕˖˗˘˙˚˛˜˝˞˟ˠˡˢˣˤ˥˦˧˨˩˪˫ˬ˭ˮ˯˰˱˲˳˴˵˶˷˸˹˺˻˼˽˾˿΄΅·҃҄҅҆҇҈҉ְֱֲֳִֵֶַָׇֹֺֻּֽֿׁׂ֑֖֛֢֣֤֥֦֧֪ׅ֚֭֮֒֓֔֕֗֘֙֜֝֞֟֠֡֨֩֫֬֯ׄ״ۖۗۘۙۚۛۜ۝ۣ۟۠ۡۢۤۥۦ۪ۭۧۨ۫۬ަާިީުޫެޭޮޯް߲߫߬߭߮߯߰߱߳ߴߵߺ߽࢈࢐࢑࢙࢚࢛ࢗ࢘࢜࢝࢞࢟ࣉ࣏࣐࣑࣒࣓࣊࣋࣌࣍࣎ࣔࣕࣖࣗࣘࣙࣚࣛࣜࣝࣞࣟ࣠࣡࣢ࣰࣱࣲࣣࣦࣩ࣭࣮࣯ࣶࣹࣺࣤࣥࣧࣨ࣪࣫࣬ࣳࣴࣵࣷࣸࣻࣼࣽࣾࣿঁ়ুূৃৄ্ৢৣ৾ઁં઼ુૂૃૄૅેૈ્ૢૣૺૻૼ૽૾૿ஂீ்ಁ಼ಿೆೌ್ೢೣඁ්ිීුූັິີຶື຺ຸູົຼໆ່້໊໋໌ໍ໎྄ཱྀྀྂྃ྆྇ྍྎྏྐྑྒྒྷྔྕྖྗྙྚྛྜྜྷྞྟྠྡྡྷྣྤྥྦྦྷྨྩྪྫྫྷྭྮྯྰྱྲླྴྵྶྷྸྐྵྺྻྼ࿆ႂႅႆႍႝჼ឴឵ិីឹឺុូួំ៉៊់៌៍៎៏័៑្៓ៗ៝ᢅᢆᢩᪧ᪵᪶᪷᪸᪹᪺᪽᪰᪱᪲᪳᪴᪻᪼᪾ᪿᫀ᫃᫄᫊᫁᫂᫅᫆᫇᫈᫉᫋ᫌᫍᫎ᫏᫐᫑᫒᫓᫔᫕᫖᫗᫘᫙᫚᫛᫜᫝᫠᫡᫢᫣᫤᫥᫦᫧᫨᫩᫪᫫ᮀᮁᮢᮣᮤᮥᮨᮩ᮫ᮬᮭ᯦ᯨᯩᯭᯯᯰᯱ᳔᳢᳣᳤᳥᳦᳧᳨᳕᳖᳗᳘᳙᳜᳝᳞᳟᳭᳐᳑᳒᳚᳛᳠᳴᳸᳹ᶛᶜᶝᶞᶟᶠᶡᶢᶣᶤᶥᶦᶧᶨᶩᶪᶫᶬᶭᶮᶯᶰᶱᶲᶳᶴᶵᶶᶷᶸᶹᶺᶻᶼᶽᶾᶿ᷐᷎᷺᷂᷊᷏᷹᷽᷿᷷᷸᷀᷁᷃᷄᷅᷆᷇᷈᷉᷋᷌᷑᷒ᷓᷔᷕᷖᷗᷘᷙᷚᷛᷜᷝᷞᷟᷠᷡᷢᷣᷤᷥᷦᷧᷨᷩᷪᷫᷬᷭᷮᷯᷰᷱᷲᷳᷴ᷵᷻᷾᷶᷼᷍᾽᾿῀῁῍῎῏῝῞῟῭΅`´῾ₐₑₒₓₔₕₖₗₘₙₚₛₜ⃒⃓⃘⃙⃚⃐⃑⃔⃕⃖⃗⃛⃜⃝⃞⃟⃠⃡⃢⃣⃤⃥⃦⃪⃫゙゚⃨⃬⃭⃮⃯⃧⃩⃰⳯⳰⳱ⷠⷡⷢⷣⷤⷥⷦⷧⷨⷩⷪⷫⷬⷭⷮⷯⷰⷱⷲⷳⷴⷵⷶⷷⷸⷹⷺⷻⷼⷽⷾⷿ゛゜ゝゞーヽヾꓸꓹꓺꓻꓼꓽꚜꚝꚞꚟ꛰꛱ꞈ꞉꞊꟱ꟲꟳꟴꟸꟹ꣄ꣅ꣠꣡꣢꣣꣤꣥꣦꣧꣨꣩꣪꣫꣬꣭꣮꣯꣰꣱ꣿꦀꦁꦂ꦳ꦶꦷꦸꦹꦼꦽꧏꧥꧦꪴꪰꪲꪳꪷꪸꪾ꪿꫁ꫝꫬꫭꫳꫴ꫶ꯥꯨ꯭﮲﮳﮴﮵﮶﮷﮸﮹﮺﮻﮼﮽﮾﮿﯀﯁﯂﻿ﾞﾟ￣￹￺￻"

CasedSet ==
    {CharAt(CasedLetters, k) : k \in 1..Len(CasedLetters)}
        \cup {CharAt(Unwritten, k) : k \in 1..Len(Unwritten)}
        \cup {UpperCase[k] : k \in 1..26} \cup {LowerCase[k] : k \in 1..26}

CaseIgnorableSet == {CharAt(CaseIgnorables, k) : k \in 1..Len(CaseIgnorables)}

\* Final_Sigma: the capital sigma at position i of s comes after a cased letter
\* and not before one, the case-ignorable characters between them skipped
FinalSigma(s, i) ==
    LET before == {j \in 1..(i - 1) : CharAt(s, j) \notin CaseIgnorableSet}
        after  == {j \in (i + 1)..Len(s) : CharAt(s, j) \notin CaseIgnorableSet}
    IN  /\ before # {}
        /\ CharAt(s, CHOOSE j \in before : \A o \in before : o <= j) \in CasedSet
        /\ ~(/\ after # {}
              /\ CharAt(s, CHOOSE j \in after : \A o \in after : j <= o) \in CasedSet)

RECURSIVE LowerFrom(_, _)
LowerFrom(s, i) ==
    IF i > Len(s) THEN ""
    ELSE (IF CharAt(s, i) = "Σ" THEN (IF FinalSigma(s, i) THEN "ς" ELSE "σ")
                                ELSE LowerChar(CharAt(s, i)))
         \o LowerFrom(s, i + 1)

\* String.prototype.toLowerCase
ToLowerCase(s) == LowerFrom(s, 1)

\* s.split('.').pop(): the text after the last dot, the whole text without one
RECURSIVE SplitPop(_)
SplitPop(s) ==
    IF \E i \in 1..Len(s) : CharAt(s, i) = "."
    THEN SplitPop(SubSeq(s, (CHOOSE i \in 1..Len(s) : CharAt(s, i) = "."
                                /\ \A j \in 1..(i - 1) : CharAt(s, j) # ".") + 1, Len(s)))
    ELSE s

RECURSIVE Pow10(_)
Pow10(k) == IF k = 0 THEN 1 ELSE 10 * Pow10(k - 1)

\* the number of digits of s from position i on
RECURSIVE DigitRun(_, _)
DigitRun(s, i) ==
    IF i <= Len(s) /\ IsDigit(CharAt(s, i)) THEN 1 + DigitRun(s, i + 1) ELSE 0

\* the value of the n digits of s from position i on
RECURSIVE DigitsValue(_, _, _)
DigitsValue(s, i, n) ==
    IF n = 0 THEN 0
    ELSE DigitsValue(s, i, n - 1) * 10 + DigitVal(CharAt(s, i + n - 1))

(***************************************************************************)
(* Natural numbers of any size: the limbs in base 2^15, the lowest first,  *)
(* no zero limb at the top (<<>> is 0).  The limbs of a result are written *)
(* one by one from the limbs of the operands, so that the evaluation is    *)
(* not nested as deep as the numbers are long.                             *)
(***************************************************************************)
Base == 2^15

SetMax(S) == CHOOSE m \in S : \A o \in S : o <= m

Max(m, n) == IF m > n THEN m ELSE n

Min(m, n) == IF m < n THEN m ELSE n

BigStrip(a) ==
    LET nz == {i \in 1..Len(a) : a[i] # 0}
    IN  IF nz = {} THEN <<>> ELSE SubSeq(a, 1, SetMax(nz))

\* a natural number below 2^30
BigOf(n) == BigStrip(<<n % Base, n \div Base>>)

Limb(a, i) == IF 1 <= i /\ i <= Len(a) THEN a[i] ELSE 0

\* 1, 0, -1 as a > b, a = b, a < b
BigCmp(a, b) ==
    IF Len(a) > Len(b) THEN 1
    ELSE IF Len(a) < Len(b) THEN -1
    ELSE LET diff == {i \in 1..Len(a) : a[i] # b[i]}
         IN  IF diff = {} THEN 0
             ELSE IF a[SetMax(diff)] > b[SetMax(diff)] THEN 1 ELSE -1

\* a + b, also of limbs with zeros at the top: a carry enters limb i when
\* the nearest limb below it whose sum is not Base - 1 overflows
BigAdd(a, b) ==
    LET Sum(i)     == Limb(a, i) + Limb(b, i)
        CarryIn(i) == LET open == {j \in 1..(i - 1) : Sum(j) # Base - 1}
                      IN  open # {} /\ Sum(SetMax(open)) >= Base
    IN  BigStrip([i \in 1..(Max(Len(a), Len(b)) + 1) |->
                     (Sum(i) + (IF CarryIn(i) THEN 1 ELSE 0)) % Base])

\* a - b for a >= b: limb i lends when the nearest limb below it where the
\* two differ is the smaller in a
BigSub(a, b) ==
    LET BorrowIn(i) == LET open == {j \in 1..(i - 1) : a[j] # Limb(b, j)}
                       IN  open # {} /\ a[SetMax(open)] < Limb(b, SetMax(open))
    IN  BigStrip([i \in 1..Len(a) |->
                     (a[i] - Limb(b, i) - (IF BorrowIn(i) THEN 1 ELSE 0) + Base) % Base])

\* a * k for k <= 2^15: the low limbs of the products, and their high limbs
\* one place up
BigMulSmall(a, k) ==
    BigAdd([i \in 1..Len(a) |-> (a[i] * k) % Base],
           [i \in 1..(Len(a) + 1) |-> (Limb(a, i - 1) * k) \div Base])

\* a * 2^n
BigShl(a, n) ==
    LET limbs == n \div 15
        low   == 2^(15 - (n % 15))
        high  == 2^(n % 15)
    IN  BigStrip([i \in 1..(Len(a) + limbs + 1) |->
                     IF i <= limbs THEN 0
                     ELSE (Limb(a, i - limbs) % low) * high
                              + (Limb(a, i - limbs - 1) \div low)])

BigShlLimbs(a, n) == BigShl(a, 15 * n)

\* floor(a / 2^n)
BigShr(a, n) ==
    LET limbs == n \div 15
        low   == 2^(n % 15)
        high  == 2^(15 - (n % 15))
    IN  IF limbs >= Len(a) THEN <<>>
        ELSE BigStrip([i \in 1..(Len(a) - limbs) |->
                          (a[i + limbs] \div low) + (Limb(a, i + limbs + 1) % low) * high])

RECURSIVE BigDivSmallFrom(_, _, _, _)
BigDivSmallFrom(a, k, i, rem) ==
    IF i = 0 THEN [q |-> <<>>, r |-> rem]
    ELSE [BigDivSmallFrom(a, k, i - 1, (rem * Base + a[i]) % k)
             EXCEPT !.q = Append(@, (rem * Base + a[i]) \div k)]

\* quotient and remainder of a by k, 0 < k <= 2^15
BigDivSmall(a, k) == [BigDivSmallFrom(a, k, Len(a), 0) EXCEPT !.q = BigStrip(@)]

\* the sum over i in lo..hi of the low (part = 0) or high (part = 1) limbs of
\* the products a[i] * b[j + 1 - i], which all weigh Base^(j - 1)
RECURSIVE BigColumn(_, _, _, _, _, _)
BigColumn(a, b, j, lo, hi, part) ==
    IF lo > hi THEN 0
    ELSE IF lo = hi
    THEN (IF part = 0 THEN (a[lo] * b[j + 1 - lo]) % Base
                      ELSE (a[lo] * b[j + 1 - lo]) \div Base)
    ELSE BigColumn(a, b, j, lo, (lo + hi) \div 2, part)
         + BigColumn(a, b, j, ((lo + hi) \div 2) + 1, hi, part)

\* the number whose limb j is raw[j], each raw[j] below Base^2
BigCarry(raw) ==
    BigAdd([j \in 1..Len(raw) |-> raw[j] % Base],
           [j \in 1..(Len(raw) + 1) |-> IF j = 1 THEN 0 ELSE raw[j - 1] \div Base])

BigMul(a, b) ==
    IF a = <<>> \/ b = <<>> THEN <<>>
    ELSE LET Col(j, part) ==
                 BigColumn(a, b, j, Max(1, j + 1 - Len(b)), Min(Len(a), j), part)
         IN  BigCarry([j \in 1..(Len(a) + Len(b)) |-> Col(j, 0) + Col(j - 1, 1)])

\* the number of bits of a, 0 for 0
BigBitLen(a) ==
    IF a = <<>> THEN 0
    ELSE 15 * (Len(a) - 1) + (CHOOSE k \in 1..15 : 2^(k - 1) <= a[Len(a)] /\ a[Len(a)] < 2^k)

BigIsOdd(a) == a # <<>> /\ a[1] % 2 = 1

BigSquare(a) == BigMul(a, a)

RECURSIVE BigPow10(_)
BigPow10(k) ==
    IF k = 0 THEN <<1>>
    ELSE IF k % 2 = 1 THEN BigMulSmall(BigSquare(BigPow10(k \div 2)), 10)
    ELSE BigSquare(BigPow10(k \div 2))

\* the largest q with q * d <= n, from an estimate that is not below it
RECURSIVE BigDigitFix(_, _, _)
BigDigitFix(n, d, q) ==
    IF BigCmp(BigMulSmall(d, q), n) > 0 THEN BigDigitFix(n, d, q - 1) ELSE q

\* long division in base 2^15 of n by d for a quotient of k limbs; the
\* top limb of d is at least 2^14, so that the quotient of the two top limbs
\* of n by the top limb of d is the next limb of the quotient or at most 2 more
RECURSIVE BigDivLimbs(_, _, _)
BigDivTake(n, d, k, dsh, digit) ==
    [BigDivLimbs(BigSub(n, BigMulSmall(dsh, digit)), d, k - 1)
        EXCEPT !.q = BigAdd(@, BigShlLimbs(BigOf(digit), k - 1))]

BigDivDigit(n, d, k, dsh) ==
    BigDivTake(n, d, k, dsh,
               BigDigitFix(n, dsh, Min(Base - 1,
                   (Limb(n, Len(dsh) + 1) * Base + Limb(n, Len(dsh))) \div d[Len(d)])))

BigDivLimbs(n, d, k) ==
    IF k = 0 THEN [q |-> <<>>, r |-> n]
    ELSE BigDivDigit(n, d, k, BigShlLimbs(d, k - 1))

\* quotient and remainder of n by d # 0, for a quotient below 2^bits
BigDivMod(n, d, bits) ==
    LET norm == (15 - (BigBitLen(d) % 15)) % 15
    IN  [BigDivLimbs(BigShl(n, norm), BigShl(d, norm), (bits + 14) \div 15)
            EXCEPT !.r = BigShr(@, norm)]

RECURSIVE Repeat(_, _)
Repeat(c, n) == IF n <= 0 THEN "" ELSE c \o Repeat(c, n - 1)

RECURSIVE NatToString(_)
NatToString(n) ==
    IF n < 10 THEN Digits[n + 1] ELSE NatToString(n \div 10) \o Digits[(n % 10) + 1]

\* the decimal digits of a, "" for 0, four at a time
RECURSIVE BigDigits(_)
BigDigitsStep(qd, last) ==
    IF qd.q = <<>> THEN last
    ELSE BigDigits(qd.q) \o Repeat("0", 4 - Len(last)) \o last

BigDigitsLast(qd) == BigDigitsStep(qd, NatToString(qd.r))

BigDigits(a) == IF a = <<>> THEN "" ELSE BigDigitsLast(BigDivSmall(a, 10000))

\* the number the n decimal digits of s from position i on write, the two
\* halves of a long run apart
RECURSIVE BigOfDigits(_, _, _)
BigOfDigits(s, i, n) ==
    IF n <= 4 THEN BigOf(DigitsValue(s, i, n))
    ELSE BigAdd(BigMul(BigOfDigits(s, i, n \div 2), BigPow10(n - (n \div 2))),
                BigOfDigits(s, i + (n \div 2), n - (n \div 2)))

(***************************************************************************)
(* JavaScript numbers: IEEE 754 doubles.  A finite number is                *)
(* (-1)^neg * m * 2^e with m below 2^53; m has 53 bits, or e is -1074       *)
(* (subnormal), or m is 0 and e is 0.                                       *)
(***************************************************************************)
NaN == [nan |-> TRUE, inf |-> FALSE, neg |-> FALSE, m |-> <<>>, e |-> 0]

Infinity(neg) == [nan |-> FALSE, inf |-> TRUE, neg |-> neg, m |-> <<>>, e |-> 0]

Zero(neg) == [nan |-> FALSE, inf |-> FALSE, neg |-> neg, m |-> <<>>, e |-> 0]

IsZero(x) == ~x.nan /\ ~x.inf /\ x.m = <<>>

\* the double nearest to (a / b) * 2^e2, ties to the even mantissa
\* the finite number (-1)^neg * m * 2^e, m below 2^53: Infinity above the range
Finite(neg, m, e) ==
    IF m = <<>> THEN Zero(neg)
    ELSE IF e + BigBitLen(m) > 1024 THEN Infinity(neg)
    ELSE [nan |-> FALSE, inf |-> FALSE, neg |-> neg, m |-> m, e |-> e]

\* m * 2^e for m up to 2^53, which is 2^52 * 2^(e + 1)
Normal(neg, m, e) ==
    IF BigBitLen(m) = 54 THEN Finite(neg, BigShr(m, 1), e + 1) ELSE Finite(neg, m, e)

\* the bits of q below bit n against the half of 2^n: 1, 0, -1
TailCmp(q, n) == BigCmp(BigSub(q, BigShl(BigShr(q, n), n)), BigShl(<<1>>, n - 1))

\* whether (q + a fraction that is 0 iff r is 0) / 2^n rounds up, to nearest and
\* to even on a tie
RoundsUp(q, r, n, tail) ==
    tail > 0 \/ (tail = 0 /\ (r # <<>> \/ BigIsOdd(BigShr(q, n))))

\* qr.q * 2^e with the lowest drop bits of qr.q rounded away
RoundDropped(neg, qr, e, drop) ==
    IF drop > BigBitLen(qr.q) + 1 THEN Zero(neg)
    ELSE Normal(neg,
                IF RoundsUp(qr.q, qr.r, drop, TailCmp(qr.q, drop))
                THEN BigAdd(BigShr(qr.q, drop), <<1>>)
                ELSE BigShr(qr.q, drop),
                e + drop)

\* the bits that do not fit: all but 53, and more below the least exponent
RoundQuotient(neg, qr, e, nb) ==
    RoundDropped(neg, qr, e, IF e + (nb - 53) < -1074 THEN -1074 - e ELSE nb - 53)

\* floor(a * 2^sh / b), and a remainder that is 0 iff nothing was cut
ScaledQuotient(a, b, sh) ==
    IF b # <<1>>
    THEN BigDivMod(IF sh > 0 THEN BigShl(a, sh) ELSE a,
                   IF sh < 0 THEN BigShl(b, 0 - sh) ELSE b, 57)
    ELSE IF sh >= 0 THEN [q |-> BigShl(a, sh), r |-> <<>>]
    ELSE [q |-> BigShr(a, 0 - sh), r |-> BigSub(a, BigShl(BigShr(a, 0 - sh), 0 - sh))]

RoundScaled(neg, qr, e) == RoundQuotient(neg, qr, e, BigBitLen(qr.q))

RoundShifted(neg, a, b, e2, sh) == RoundScaled(neg, ScaledQuotient(a, b, sh), e2 - sh)

\* the double nearest to (a / b) * 2^e2, to even on a tie: the quotient is
\* taken with 56 or 57 bits and a remainder, and rounded to 53
RoundToDouble(neg, a, b, e2) ==
    IF a = <<>> THEN Zero(neg)
    ELSE RoundShifted(neg, a, b, e2, 55 - (BigBitLen(a) - BigBitLen(b)))

\* an integer below 2^30 in absolute value
Num(n) == RoundToDouble(n < 0, BigOf(IF n < 0 THEN 0 - n ELSE n), <<1>>, 0)

RECURSIVE ZeroRun(_, _)
ZeroRun(s, i) == IF i <= Len(s) /\ CharAt(s, i) = "0" THEN 1 + ZeroRun(s, i + 1) ELSE 0

\* the value digs * 10^pw of a literal of nd digits
DecimalValue(minus, digs, nd, pw) ==
    IF digs = <<>> THEN Zero(minus)
    ELSE IF pw >= 309 THEN Infinity(minus)
    ELSE IF nd + pw <= -324 THEN Zero(minus)
    ELSE RoundToDouble(minus,
                       IF pw > 0 THEN BigMul(digs, BigPow10(pw)) ELSE digs,
                       IF pw < 0 THEN BigPow10(0 - pw) ELSE <<1>>, 0)

\* the digits of an exponent from position epos on, 0 without a digit
ExponentDigits(t, epos, eneg, ne) ==
    LET ez   == ZeroRun(t, epos)
        emag == IF ne - ez > 6 THEN 1000000 ELSE DigitsValue(t, epos + ez, ne - ez)
    IN  IF ne = 0 THEN 0 ELSE IF eneg THEN 0 - emag ELSE emag

\* the exponent part at position pos: e or E, a sign, digits; 0 without one
ExponentSigned(t, pos, sgn) ==
    ExponentDigits(t, IF sgn THEN pos + 2 ELSE pos + 1, sgn /\ CharAt(t, pos + 1) = "-",
                   DigitRun(t, IF sgn THEN pos + 2 ELSE pos + 1))

ExponentAt(t, pos) ==
    IF pos <= Len(t) /\ CharAt(t, pos) \in {"e", "E"}
    THEN ExponentSigned(t, pos, pos + 1 <= Len(t) /\ CharAt(t, pos + 1) \in {"-", "+"})
    ELSE 0

\* ni digits from st on, then nf digits of a fraction, then what is at pos
ParseParts(t, st, minus, ni, nf, pos) ==
    LET lead == Min(ZeroRun(t, st), ni)
    IN  IF ni + nf = 0 THEN NaN
        ELSE DecimalValue(minus,
                          BigAdd(BigMul(BigOfDigits(t, st + lead, ni - lead), BigPow10(nf)),
                                 BigOfDigits(t, st + ni + 1, nf)),
                          (ni - lead) + nf,
                          ExponentAt(t, pos) - nf)

ParseFraction(t, st, minus, ni, nf, dot) ==
    ParseParts(t, st, minus, ni, nf, st + ni + (IF dot THEN 1 + nf ELSE 0))

ParseDigits(t, st, minus, ni, dot) ==
    ParseFraction(t, st, minus, ni, IF dot THEN DigitRun(t, st + ni + 1) ELSE 0, dot)

ParseUnsigned(t, st, minus) ==
    IF st + 7 <= Len(t) /\ SubSeq(t, st, st + 7) = "Infinity" THEN Infinity(minus)
    ELSE ParseDigits(t, st, minus, DigitRun(t, st),
                     st + DigitRun(t, st) <= Len(t) /\ CharAt(t, st + DigitRun(t, st)) = ".")

ParseSigned(t, sgn) == ParseUnsigned(t, IF sgn THEN 2 ELSE 1, sgn /\ CharAt(t, 1) = "-")

ParseTrimmed(t) == ParseSigned(t, Len(t) > 0 /\ CharAt(t, 1) \in {"-", "+"})

\* parseFloat: white space, then the longest prefix that is a decimal literal
\* (sign, Infinity or digits with a fraction and an exponent); NaN without one
ParseFloat(s) == ParseTrimmed(TrimLeft(s))

\* the order of the magnitudes of two finite numbers: 1, 0, -1
MagCmp(a, b) ==
    IF a.m = <<>> \/ b.m = <<>>
    THEN (IF a.m # <<>> THEN 1 ELSE IF b.m # <<>> THEN -1 ELSE 0)
    ELSE IF a.e > b.e THEN 1
    ELSE IF a.e < b.e THEN -1
    ELSE BigCmp(a.m, b.m)

\* a < b and a > b of JavaScript numbers: false when either is NaN
NumLt(a, b) ==
    /\ ~a.nan
    /\ ~b.nan
    /\ IF a.inf \/ b.inf
       THEN \/ a.inf /\ a.neg /\ ~(b.inf /\ b.neg)
            \/ b.inf /\ ~b.neg /\ ~(a.inf /\ ~a.neg)
       ELSE IF IsZero(a) /\ IsZero(b) THEN FALSE
       ELSE IF a.neg /\ ~b.neg THEN TRUE
       ELSE IF ~a.neg /\ b.neg THEN FALSE
       ELSE IF a.neg THEN MagCmp(a, b) > 0
       ELSE MagCmp(a, b) < 0

NumGt(a, b) == NumLt(b, a)

\* ToBoolean of a number: NaN, 0 and -0 are falsy
Truthy(a) == ~a.nan /\ ~IsZero(a)

\* a / b of JavaScript numbers
NumDiv(a, b) ==
    IF a.nan \/ b.nan THEN NaN
    ELSE IF a.inf THEN (IF b.inf THEN NaN ELSE Infinity(a.neg # b.neg))
    ELSE IF b.inf THEN Zero(a.neg # b.neg)
    ELSE IF b.m = <<>> THEN (IF a.m = <<>> THEN NaN ELSE Infinity(a.neg # b.neg))
    ELSE RoundToDouble(a.neg # b.neg, a.m, b.m, a.e - b.e)

\* a * b of JavaScript numbers
NumMul(a, b) ==
    IF a.nan \/ b.nan THEN NaN
    ELSE IF a.inf \/ b.inf
    THEN (IF IsZero(a) \/ IsZero(b) THEN NaN ELSE Infinity(a.neg # b.neg))
    ELSE RoundToDouble(a.neg # b.neg, BigMul(a.m, b.m), <<1>>, a.e + b.e)

\* (a / b) * c of JavaScript numbers
DivMul(a, b, c) == NumMul(NumDiv(a, b), c)

\* the sum of the magnitudes am * 2^e and bm * 2^e after the sign neg
AddAligned(neg, am, bm, e) == RoundToDouble(neg, BigAdd(am, bm), <<1>>, e)

\* am * 2^e after the sign neg, less bm * 2^e: an exact 0 is +0
SubAligned(neg, am, bm, e) ==
    IF BigCmp(am, bm) = 0 THEN Zero(FALSE)
    ELSE IF BigCmp(am, bm) > 0 THEN RoundToDouble(neg, BigSub(am, bm), <<1>>, e)
    ELSE RoundToDouble(~neg, BigSub(bm, am), <<1>>, e)

AddFinite(a, b, e) ==
    IF a.neg = b.neg
    THEN AddAligned(a.neg, BigShl(a.m, a.e - e), BigShl(b.m, b.e - e), e)
    ELSE SubAligned(a.neg, BigShl(a.m, a.e - e), BigShl(b.m, b.e - e), e)

\* a + b of JavaScript numbers
NumAdd(a, b) ==
    IF a.nan \/ b.nan THEN NaN
    ELSE IF a.inf THEN (IF b.inf /\ a.neg # b.neg THEN NaN ELSE a)
    ELSE IF b.inf THEN b
    ELSE IF a.m = <<>> THEN (IF b.m = <<>> THEN Zero(a.neg /\ b.neg) ELSE b)
    ELSE IF b.m = <<>> THEN a
    ELSE AddFinite(a, b, Min(a.e, b.e))

\* a >= b and a <= b of JavaScript numbers: false when either is NaN
NumGe(a, b) == ~a.nan /\ ~b.nan /\ ~NumLt(a, b)

NumLe(a, b) == NumGe(b, a)

\* the whole part q of a magnitude m * 2^e with e < 0, rounded towards minus
\* infinity: one more after a minus sign when bits were cut
FloorOf(neg, m, q, cut) ==
    IF neg /\ BigShl(q, cut) # m THEN RoundToDouble(TRUE, BigAdd(q, <<1>>), <<1>>, 0)
    ELSE IF q = <<>> THEN Zero(FALSE)
    ELSE RoundToDouble(neg, q, <<1>>, 0)

\* Math.floor
MathFloor(x) ==
    IF x.nan \/ x.inf \/ x.e >= 0 THEN x
    ELSE FloorOf(x.neg, x.m, BigShr(x.m, 0 - x.e), 0 - x.e)

\* the integer a number of magnitude below 2^30 is, its fraction dropped
IntOf(x) ==
    LET q == IF x.e >= 0 THEN BigShl(x.m, x.e) ELSE BigShr(x.m, 0 - x.e)
        n == Limb(q, 1) + Base * Limb(q, 2)
    IN  IF x.neg THEN 0 - n ELSE n

\* a finite number as the fraction n / d of two naturals
Fraction(x) ==
    [n |-> IF x.e > 0 THEN BigShl(x.m, x.e) ELSE x.m,
     d |-> IF x.e < 0 THEN BigShl(<<1>>, 0 - x.e) ELSE <<1>>]

\* the n with 10^(n-1) <= x < 10^n for a finite x > 0 given as a fraction
RECURSIVE DecimalExponent(_, _)
DecimalExponent(f, n) ==
    LET AtLeast(k) == IF k >= 0 THEN BigCmp(f.n, BigMul(f.d, BigPow10(k))) >= 0
                      ELSE BigCmp(BigMul(f.n, BigPow10(0 - k)), f.d) >= 0
    IN  IF AtLeast(n) THEN DecimalExponent(f, n + 1)
        ELSE IF ~AtLeast(n - 1) THEN DecimalExponent(f, n - 1)
        ELSE n

\* whether the digits s, scaled by down / up, read back as x
ReadsBack(x, y) == y.m = x.m /\ y.e = x.e

ReadBack(x, s, up, down) == ReadsBack(x, RoundToDouble(FALSE, BigMul(s, down), up, 0))

\* k digits, or "1" one place up when rounding carried into a digit more
DigitsAt(ds, n, k) == IF Len(ds) > k THEN [s |-> "1", n |-> n + 1] ELSE [s |-> ds, n |-> n]

RECURSIVE ShortestDigits(_, _, _, _)
\* of the two numbers of k digits around x those that read back as x, the
\* nearer one (the even one on a tie); k + 1 digits when neither does
ShortestChoice(x, f, n, k, lo, okLo, okHi, cmp) ==
    IF okLo \/ okHi
    THEN DigitsAt(BigDigits(IF okLo /\ (~okHi \/ cmp < 0 \/ (cmp = 0 /\ ~BigIsOdd(lo)))
                            THEN lo ELSE BigAdd(lo, <<1>>)), n, k)
    ELSE ShortestDigits(x, f, n, k + 1)

ShortestPick(x, f, n, k, up, down, qd) ==
    ShortestChoice(x, f, n, k, qd.q,
                   qd.q # <<>> /\ ReadBack(x, qd.q, up, down),
                   ReadBack(x, BigAdd(qd.q, <<1>>), up, down),
                   BigCmp(BigMulSmall(qd.r, 2), BigMul(f.d, down)))

ShortestTry(x, f, n, k, up, down) ==
    ShortestPick(x, f, n, k, up, down, BigDivMod(BigMul(f.n, up), BigMul(f.d, down), 60))

\* the shortest digits that read back as x: [s, n] with x nearest to
\* 0.s * 10^n, tried with k = 1, 2, ... digits
ShortestDigits(x, f, n, k) ==
    ShortestTry(x, f, n, k,
                IF k > n THEN BigPow10(k - n) ELSE <<1>>,
                IF k < n THEN BigPow10(n - k) ELSE <<1>>)

\* the digits ds of a number below 10^nx, written as Number::toString does
FormatNumber(neg, ds, nk, nx) ==
    LET ex == IF nx - 1 < 0 THEN "e-" \o NatToString(1 - nx) ELSE "e+" \o NatToString(nx - 1)
    IN  (IF neg THEN "-" ELSE "")
        \o (IF nk <= nx /\ nx <= 21 THEN ds \o Repeat("0", nx - nk)
            ELSE IF 0 < nx /\ nx <= 21 THEN SubSeq(ds, 1, nx) \o "." \o SubSeq(ds, nx + 1, nk)
            ELSE IF -6 < nx /\ nx <= 0 THEN "0." \o Repeat("0", 0 - nx) \o ds
            ELSE IF nk = 1 THEN ds \o ex
            ELSE SubSeq(ds, 1, 1) \o "." \o SubSeq(ds, 2, nk) \o ex)

DigitsToString(neg, sd) == FormatNumber(neg, sd.s, Len(sd.s), sd.n)

ShortestOf(x, fr) ==
    ShortestDigits(x, fr,
                   DecimalExponent(fr, ((x.e + BigBitLen(x.m)) * 30103) \div 100000), 1)

\* Number::toString
NumberToString(x) ==
    IF x.nan THEN "NaN"
    ELSE IF x.inf THEN (IF x.neg THEN "-Infinity" ELSE "Infinity")
    ELSE IF x.m = <<>> THEN "0"
    ELSE DigitsToString(x.neg, ShortestOf(x, Fraction(x)))

\* the digits of a number of thousandths, with the point before the last three
FixedString(minus, ds) ==
    LET padded == Repeat("0", 4 - Len(ds)) \o ds
    IN  (IF minus THEN "-" ELSE "")
        \o SubSeq(padded, 1, Len(padded) - 3) \o "." \o SubSeq(padded, Len(padded) - 2, Len(padded))

\* x.toFixed(3): the nearest multiple of 1/1000 of the magnitude of x, the
\* larger one on a tie, after the sign of x; Number::toString from 10^21 on
ToFixed3(x) ==
    IF x.nan \/ x.inf \/ (x.e > 16 /\ BigCmp(BigShl(x.m, x.e), BigPow10(21)) >= 0)
    THEN NumberToString(x)
    ELSE FixedString(x.neg /\ x.m # <<>>,
                     BigDigits(IF x.e >= 0 THEN BigShl(BigMulSmall(x.m, 1000), x.e)
                               ELSE IF 0 - x.e > 70 THEN <<>>
                               ELSE BigShr(BigAdd(BigMulSmall(x.m, 2000), BigShl(<<1>>, 0 - x.e)),
                                           1 - x.e)))

(***************************************************************************)
(* Numbers as the statements about the calculations take them: the exact   *)
(* value num / den of a decimal text, without the rounding of a double.    *)
(***************************************************************************)
Abs(n) == IF n < 0 THEN 0 - n ELSE n

\* the value of a text that is a decimal literal and nothing else (sign,
\* digits, fraction, exponent); nan for any other text
ExactValue(s) ==
    LET t     == Trim(s)
        sgn   == Len(t) > 0 /\ CharAt(t, 1) \in {"-", "+"}
        minus == Len(t) > 0 /\ CharAt(t, 1) = "-"
        st    == IF sgn THEN 2 ELSE 1
        ni    == DigitRun(t, st)
        dot   == st + ni <= Len(t) /\ CharAt(t, st + ni) = "."
        nf    == IF dot THEN DigitRun(t, st + ni + 1) ELSE 0
        pos   == st + ni + (IF dot THEN 1 + nf ELSE 0)
        isE   == pos <= Len(t) /\ CharAt(t, pos) \in {"e", "E"}
        eneg  == isE /\ pos + 1 <= Len(t) /\ CharAt(t, pos + 1) = "-"
        epos  == IF isE /\ pos + 1 <= Len(t) /\ CharAt(t, pos + 1) \in {"-", "+"}
                 THEN pos + 2 ELSE pos + 1
        ne    == IF isE THEN DigitRun(t, epos) ELSE 0
        ex    == DigitsValue(t, epos, ne)
        mag   == DigitsValue(t, st, ni) * Pow10(nf) + DigitsValue(t, st + ni + 1, nf)
        whole == ni + nf > 0 /\ (IF isE THEN ne > 0 /\ epos + ne = Len(t) + 1
                                        ELSE pos = Len(t) + 1)
    IN  IF ~whole THEN [nan |-> TRUE, num |-> 0, den |-> 1]
        ELSE [nan |-> FALSE,
              num |-> (IF minus THEN 0 - mag ELSE mag) * (IF eneg THEN 1 ELSE Pow10(ex)),
              den |-> Pow10(nf) * (IF eneg THEN Pow10(ex) ELSE 1)]

ExactPositive(a) == ~a.nan /\ a.num * a.den > 0

\* (a / b) * c taken exactly, b # 0
ExactDivMul(a, b, c) ==
    IF a.nan \/ b.nan \/ c.nan THEN [nan |-> TRUE, num |-> 0, den |-> 1]
    ELSE [nan |-> FALSE, num |-> a.num * b.den * c.num, den |-> a.den * b.num * c.den]

(***************************************************************************)
(* State.                                                                  *)
(***************************************************************************)
VARIABLES
    now,                \* Date.now(), in ms from an origin before the page load
    call,               \* the last handler that ran, with what it was given and returned
    amvText,            \* AMV form: value of every text field, by name
    amvAttr,            \* AMV form: min and max attributes of the wavelength fields
    amvChecked,         \* AMV form: the checked boxes and radio, as <<name, value>>
    currentInstrument,  \* AMVManager.currentInstrument
    amvSection,         \* the instrument section on display ("" for none)
    amvRequired,        \* names of the AMV fields carrying the required attribute
    amvFieldError,      \* the invalid-feedback text under each AMV field ("" for none)
    amvSaved,           \* localStorage item amvFormData
    amvPending,         \* generate-number requests of the AMV page in flight
    amvPc,              \* AMV page: "constructing" until loadSavedData ran, then "ready",
                        \* and "submitting" once the submit listener let the form go
    fuFiles,            \* the file each .file-input holds (NoFile for none)
    fuPreview,          \* the .file-input areas showing a file preview
    fuRequired,         \* the .file-input elements carrying the required attribute
    pageLabel,          \* the textContent of the label beside each field ("" for none)
    fuBanner,           \* the text of the fileUploadError banner ("" while hidden)
    fuProgress,         \* the percentage #uploadProgress shows (-1 while hidden)
    draft,              \* localStorage item documentDraft
    dcType,             \* DocumentCreationManager.currentDocumentType
    dcChecked,          \* the document_type radio that is checked, by position (0 for none)
    dcFirstRadio,       \* the value of the first document_type radio
    dcRendered,         \* the type whose template is in #documentParameters ("" for none)
    dcText,             \* value of the basic fields of createDocumentForm, by id
    dcParam,            \* value of the fields in #documentParameters, by name
    dcTemplate,         \* value of the fields of the hidden templates, by name
    dcRequired,         \* names of the fields in #documentParameters carrying required
    dcLoadTimer,        \* whether the 500 ms timer that calls loadDraft is still to fire
    dcRestore,          \* the 100 ms timer of restoreDraft and the draftData it holds
    dcNumPending,       \* generate-document-number requests of this page in flight
    dcRequest,          \* the create request in flight
    dcInFlight,         \* the number of create requests in flight
    dcParsing,          \* those of them whose fetch resolved: response.json() is awaited
    dcDisabled,         \* whether the submit button is disabled
    dcNav,              \* "none", "timer" (redirect in 1 s) or "navigated"
    hasFileManager,     \* whether window.fileUploadManager exists
    dbDisplay,          \* dashboard: style.display of the row of each searchable element
    dbMarked,           \* dashboard: the searchable elements holding <mark> highlights
    dbPollTimer,        \* dashboard: whether the 30-second interval of initRealTimeUpdates runs
    dbStatsPending,     \* dashboard: requests of /dashboard/stats in flight
    dbCounter,          \* dashboard: the number each stats element displays
    dbAnim,             \* dashboard: the running animateNumber intervals of each stats element
    dbNotice,           \* dashboard: the notifications showNotification put on the page
    dbExporting,        \* dashboard: the export requests in flight
    auButton,           \* login and register pages: the submit button of the form
    auPhase,            \* what handleLogin or handleRegister awaits ("idle" for nothing)
    auError,            \* login and register pages: the error division and its text
    auNav,              \* whether the page set window.location.href to /dashboard/
    hiDocs,             \* history page: the ids of the documents listed
    hiToDelete,         \* history.js documentToDelete (0 for null)
    hiModalHidden,      \* whether #deleteModal carries the class hidden
    hiButton,           \* #confirmDeleteBtn
    hiPending,          \* the ids of the delete requests in flight
    hiAlert,            \* the text of the last alert ("" for none)
    dcEdit,             \* Document Creation page: where loadDocumentForEditing stands
    amvExtracting,      \* AMV page: the extract-method requests in flight
    amvFile,            \* AMV page: the file the method_analysis_file input holds
    lg,                 \* login page of login.js: #loginBtn, what the submit and the Google
                        \* listeners await, #loginError and whether the page navigated
    auRedirect,         \* login and register pages: where the sign-in by redirect
                        \* stands, and the page whose Google button started it
    amvSent,            \* AMV page: the instrument_type sent with each extract-method
                        \* request in flight
    fuChange,           \* file inputs: the input whose change listener is running and how
                        \* many runs of it are nested (0 for none)
    dbSearch            \* dashboard: the listener of initSearch, the value of #dashboardSearch,
                        \* the input events so far, the timeouts set and `searchTimeout`

amvVars == <<amvText, amvAttr, amvChecked, currentInstrument, amvSection,
             amvRequired, amvFieldError, amvSaved, amvPending, amvPc>>

fuVars == <<fuFiles, fuPreview, fuRequired, pageLabel, fuBanner, fuProgress>>

dcVars == <<draft, dcType, dcChecked, dcFirstRadio, dcRendered, dcText, dcParam, dcTemplate,
            dcRequired, dcLoadTimer, dcRestore, dcNumPending, dcRequest, dcInFlight,
            dcParsing, dcDisabled, dcNav,
            hasFileManager>>

dbVars == <<dbDisplay, dbMarked, dbPollTimer, dbStatsPending, dbCounter, dbAnim, dbNotice,
                   dbExporting>>

auVars == <<auButton, auPhase, auError, auNav>>

hiVars == <<hiDocs, hiToDelete, hiModalHidden, hiButton, hiPending, hiAlert>>

\* the pages modelled after the three above
edVars == <<dcEdit>>

exVars == <<amvExtracting, amvFile>>

\* the dashboard's search box
seVars == <<dbSearch>>

\* the change event a file input is handling
chVars == <<fuChange>>

\* the instrument_type each extract-method request in flight was sent with
snVars == <<amvSent>>

\* the login page of login.js, and the redirect sign-in of the page script
lgVars == <<lg, auRedirect>>

moreVars == <<seVars, chVars, snVars, lgVars>>

restVars == <<dbVars, auVars, hiVars, edVars, exVars, moreVars>>

vars == <<now, call, amvVars, fuVars, dcVars, restVars>>

\* what the handlers of the AMV page leave alone, and those of the file inputs
notAmv == <<fuVars, dcVars, restVars>>

notFu == <<amvVars, dcVars, restVars>>

NoItem == [present |-> FALSE]

NoCall == [op |-> "none"]

\* requests of one kind in flight at once
MaxPending == 1

\* 24 * 60 * 60 * 1000
DayMs == 24 * 60 * 60 * 1000

NoFile == [name |-> "", size |-> -1]

\* the method file input of the AMV form holding no file
NoMethodFile == [name |-> "", size |-> -1, type |-> ""]

\* the .file-input elements of the page, by id
FileInputs == {"stp_file", "raw_data_file", "method_analysis_file"}

(***************************************************************************)
(* AMVManager: the form it is bound to.                                    *)
(***************************************************************************)

UvCalcFields == {"uv_weight_standard", "uv_weight_sample", "uv_final_concentration_standard"}

HplcCalcFields == {"hplc_weight_standard", "hplc_weight_sample",
                   "hplc_final_concentration_standard"}

WavelengthFields == {"uv_wavelength", "hplc_wavelength"}

AmvTextNames ==
    {"document_title", "product_name", "label_claim", "active_ingredient",
     "document_number", "company_id",
     "uv_final_concentration_sample", "hplc_final_concentration_sample",
     "hplc_flow_rate", "hplc_injection_volume", "titration_reference_volume"}
    \cup UvCalcFields \cup HplcCalcFields \cup WavelengthFields

AmvFileNames == {"stp_file", "method_analysis_file", "raw_data_file"}

\* the val_params list of autoSelectValidationParameters, the same for every instrument
DefaultValParams ==
    <<"specificity", "system_suitability", "system_precision", "method_precision",
      "intermediate_precision", "linearity", "lod_loq", "lod_loq_precision",
      "range", "recovery", "robustness">>

validationParameters ==
    [uv |-> DefaultValParams, aas |-> DefaultValParams, hplc |-> DefaultValParams,
     uplc |-> DefaultValParams, gc |-> DefaultValParams, titration |-> DefaultValParams]

\* the instrument_type radios of the page
InstrumentTypes == DOMAIN validationParameters

\* the val_params checkboxes of the page, in document order: the defaults and one
\* box that no default list holds
ValParamBoxes == DefaultValParams \o <<"solution_stability">>

\* the parameters_to_validate checkboxes of the page, in document order
ToValidateBoxes == <<"assay", "dissolution", "related_substances">>

\* the instrument sections (<instrument>-params) of the page and their fields
AmvSectionFields ==
    [uv |-> {"uv_wavelength", "uv_final_concentration_sample"} \cup UvCalcFields,
     hplc |-> {"hplc_wavelength", "hplc_flow_rate", "hplc_injection_volume",
               "hplc_final_concentration_sample"} \cup HplcCalcFields,
     titration |-> {"titration_reference_volume"}]

AmvSections == DOMAIN AmvSectionFields

Range(f) == {f[i] : i \in DOMAIN f}

BoxOrder(group) ==
    CASE group = "val_params" -> ValParamBoxes
      [] group = "parameters_to_validate" -> ToValidateBoxes
      [] OTHER -> <<>>

\* the values of the checked boxes of a group, in document order
CheckedValues(checked, group) ==
    SelectSeq(BoxOrder(group), LAMBDA v : <<group, v>> \in checked)

\* the checked instrument_type radio's value, "" when none is checked
CheckedInstrument(checked) ==
    IF \E t \in InstrumentTypes : <<"instrument_type", t>> \in checked
    THEN CHOOSE t \in InstrumentTypes : <<"instrument_type", t>> \in checked
    ELSE ""

getRequiredFieldsForInstrument(instrumentType) ==
    CASE instrumentType = "uv" -> {"uv_wavelength"}
      [] instrumentType = "aas" -> {"uv_wavelength"}
      [] instrumentType = "hplc" -> {"hplc_wavelength", "hplc_flow_rate"}
      [] instrumentType = "gc" -> {"hplc_wavelength", "hplc_flow_rate"}
      [] instrumentType = "titration" -> {"titration_reference_volume"}
      [] OTHER -> {}

\* one value of the data object of saveFormData: a string, or an array when a
\* second entry of the same name followed a non-empty first one
Single(v) == [arr |-> FALSE, vals |-> <<v>>]

GroupEntry(vals) == [arr |-> Len(vals) >= 2, vals |-> vals]

\* the data object saveFormData builds from new FormData(form)
FormDataObject(text, checked) ==
    LET groups == {g \in {"val_params", "parameters_to_validate"} :
                       Len(CheckedValues(checked, g)) > 0}
        radio  == IF CheckedInstrument(checked) # "" THEN {"instrument_type"} ELSE {}
    IN  [k \in AmvTextNames \cup AmvFileNames \cup groups \cup radio |->
            IF k \in AmvTextNames THEN Single(text[k])
            ELSE IF k \in AmvFileNames THEN Single("{}")
            ELSE IF k = "instrument_type" THEN Single(CheckedInstrument(checked))
            ELSE GroupEntry(CheckedValues(checked, k))]

\* saveFormData: the item written to localStorage
SavedItem(text, checked, instrument, time) ==
    [present |-> TRUE, timestamp |-> time,
     data |-> FormDataObject(text, checked), instrument |-> instrument]


\* the instrument_type radios in document order
InstrumentOrder == <<"uv", "aas", "hplc", "uplc", "gc", "titration">>

ShowFieldError(errors, name, message) == [errors EXCEPT ![name] = message]

ClearFieldError(errors, name) == [errors EXCEPT ![name] = ""]

\* validateWavelengthField: whether the field is valid, and what becomes of the
\* message under it ("(kept)": neither set nor cleared)
validateWavelengthField(fieldValue, minAttr, maxAttr) ==
    LET value == ParseFloat(fieldValue)
        min   == ParseFloat(minAttr)
        max   == ParseFloat(maxAttr)
    IN  IF Trim(fieldValue) = "" THEN [ok |-> TRUE, message |-> "(kept)"]
        ELSE IF value.nan
             THEN [ok |-> FALSE, message |-> "Please enter a valid number"]
        ELSE IF Truthy(min) /\ NumLt(value, min)
             THEN [ok |-> FALSE,
                   message |-> "Value must be at least " \o NumberToString(min)]
        ELSE IF Truthy(max) /\ NumGt(value, max)
             THEN [ok |-> FALSE,
                   message |-> "Value must be no more than " \o NumberToString(max)]
        ELSE [ok |-> TRUE, message |-> ""]

\* the message under a wavelength field after validateWavelengthField: the
\* one it shows, none when it clears, the old one when the field is empty
WavelengthMessage(old, r) == IF r.message = "(kept)" THEN old ELSE r.message

\* validateWavelengthField applied to the wavelength field `name`
ValidateWavelength(name) ==
    LET r == validateWavelengthField(amvText[name], amvAttr[name].min, amvAttr[name].max)
    IN  /\ amvPc = "ready"
        /\ call' = [op |-> "validateWavelengthField", field |-> name,
                    value |-> amvText[name], min |-> amvAttr[name].min,
                    max |-> amvAttr[name].max, result |-> r.ok]
        /\ amvFieldError' = [amvFieldError EXCEPT ![name] = WavelengthMessage(@, r)]
        /\ UNCHANGED <<notAmv, now, amvText, amvAttr, amvChecked, currentInstrument, amvSection,
                       amvRequired, amvSaved, amvPending, amvPc>>

\* /^[^\s@]+$/: one character or more, none of them white space or @
EmailPart(s) == Len(s) > 0 /\ \A i \in 1..Len(s) : ~IsSpace(CharAt(s, i)) /\ CharAt(s, i) # "@"

\* emailRegex.test(value) for /^[^\s@]+@[^\s@]+\.[^\s@]+$/
EmailRegexTest(value) ==
    \E i \in 1..Len(value), j \in 1..Len(value) :
        /\ i < j
        /\ CharAt(value, i) = "@"
        /\ CharAt(value, j) = "."
        /\ EmailPart(SubSeq(value, 1, i - 1))
        /\ EmailPart(SubSeq(value, i + 1, j - 1))
        /\ EmailPart(SubSeq(value, j + 1, Len(value)))

\* num < 0 of validateField
IsNegative(num) == NumLt(num, Num(0))

\* validateField: whether the field is valid, and the message under it after it
\* ("" when it was cleared)
validateField(fieldValue, required, type, name) ==
    LET value == Trim(fieldValue)
    IN  IF required /\ value = ""
        THEN [ok |-> FALSE, message |-> "This field is required"]
        ELSE IF type = "number" /\ value # "" /\ ParseFloat(value).nan
        THEN [ok |-> FALSE, message |-> "Please enter a valid number"]
        ELSE IF /\ type = "number" /\ value # "" /\ IsNegative(ParseFloat(value))
                /\ ~Includes(name, "weight") /\ ~Includes(name, "volume")
        THEN [ok |-> FALSE, message |-> "Value must be positive"]
        ELSE IF type = "email" /\ value # "" /\ ~EmailRegexTest(value)
        THEN [ok |-> FALSE, message |-> "Please enter a valid email address"]
        ELSE [ok |-> TRUE, message |-> ""]

\* the sample concentration calculateUVConcentrations / calculateHPLCConcentrations
\* compute from the three field values (an empty value reads as 0)
SampleConcentration(weightStandardText, weightSampleText, finalConcStandardText) ==
    LET Read(t) == IF t = "" THEN Num(0) ELSE ParseFloat(t)
    IN  DivMul(Read(weightSampleText), Read(weightStandardText), Read(finalConcStandardText))

\* whether the standard's weight and concentration allow the calculation
CalculationApplies(weightStandardText, finalConcStandardText) ==
    LET Read(t) == IF t = "" THEN Num(0) ELSE ParseFloat(t)
    IN  /\ NumGt(Read(weightStandardText), Num(0))
        /\ NumGt(Read(finalConcStandardText), Num(0))

\* variant: the sample field is written whatever it holds
SampleFieldAlwaysWritable(sampleText) == TRUE

\* whether the sample field may be written: it holds nothing
SampleFieldWritable(sampleText) == sampleText = ""

\* the body shared by calculateUVConcentrations ("uv") and
\* calculateHPLCConcentrations ("hplc"): the text fields after it
CalculateConcentrations(text, prefix) ==
    LET ws     == text[prefix \o "_weight_standard"]
        wsam   == text[prefix \o "_weight_sample"]
        conc   == text[prefix \o "_final_concentration_standard"]
        sample == prefix \o "_final_concentration_sample"
    IN  IF CalculationApplies(ws, conc) /\ SampleFieldWritable(text[sample])
        THEN [text EXCEPT ![sample] = ToFixed3(SampleConcentration(ws, wsam, conc))]
        ELSE text

calculateUVConcentrations(text) == CalculateConcentrations(text, "uv")

calculateHPLCConcentrations(text) == CalculateConcentrations(text, "hplc")


\* variant: the defaults are checked without unchecking the boxes first
autoSelectMerging(checked, instrumentType) ==
    LET selectedParams == IF instrumentType \in DOMAIN validationParameters
                          THEN validationParameters[instrumentType] ELSE <<>>
    IN  checked \cup {<<"val_params", v>> : v \in Range(selectedParams) \cap Range(ValParamBoxes)}

\* autoSelectValidationParameters: the checked boxes after it
autoSelectValidationParameters(checked, instrumentType) ==
    LET selectedParams == IF instrumentType \in DOMAIN validationParameters
                          THEN validationParameters[instrumentType] ELSE <<>>
    IN  IF Len(selectedParams) > 0
        THEN {b \in checked : b[1] # "val_params"}
             \cup {<<"val_params", v>> : v \in Range(selectedParams) \cap Range(ValParamBoxes)}
        ELSE checked

\* showInstrumentParameters: the section on display after it
showInstrumentParameters(instrumentType) ==
    IF instrumentType \in AmvSections THEN instrumentType ELSE ""

\* updateFormValidation: the fields carrying required after it
updateFormValidation(required, instrument) ==
    IF instrument \in AmvSections
    THEN (required \ AmvSectionFields[instrument])
         \cup (getRequiredFieldsForInstrument(instrument) \cap AmvSectionFields[instrument])
    ELSE required

(***************************************************************************)
(* AMVManager: the handlers.                                               *)
(***************************************************************************)

\* whether the auto-generation listeners of bindAutoGeneration ask for a number
WantsDocumentNumber(text) ==
    text["document_number"] = "" /\ text["document_title"] # "" /\ text["company_id"] # ""

\* an input event on the text field `name` after the user typed v: the listeners
\* of bindFormValidation, bindAutoGeneration and bindConcentrationCalculations
AmvInput(name, v) ==
    LET typed   == [amvText EXCEPT ![name] = v]
        request == name = "document_title" /\ WantsDocumentNumber(typed)
    IN  /\ amvPc = "ready"
        /\ amvText[name] # v
        /\ request => amvPending < MaxPending
        /\ amvFieldError' = ClearFieldError(amvFieldError, name)
        /\ amvSaved' = SavedItem(typed, amvChecked, currentInstrument, now)
        /\ amvPending' = IF request THEN amvPending + 1 ELSE amvPending
        /\ amvText' = IF name \in UvCalcFields THEN calculateUVConcentrations(typed)
                      ELSE IF name \in HplcCalcFields THEN calculateHPLCConcentrations(typed)
                      ELSE typed
        /\ call' = [op |-> "input", field |-> name, before |-> amvText]
        /\ UNCHANGED <<notAmv, now, amvAttr, amvChecked, currentInstrument, amvSection,
                       amvRequired, amvPc>>

\* the field `name`, an element of the given type, loses the focus: the blur
\* listener of bindFormValidation
AmvBlur(name, type) ==
    LET r == validateField(amvText[name], name \in amvRequired, type, name)
    IN  /\ amvPc = "ready"
        /\ amvFieldError' = ShowFieldError(amvFieldError, name, r.message)
        /\ call' = [op |-> "blur", field |-> name, type |-> type, result |-> r.ok]
        /\ UNCHANGED <<notAmv, now, amvText, amvAttr, amvChecked, currentInstrument, amvSection,
                       amvRequired, amvSaved, amvPending, amvPc>>

\* the company select changes to v: its input and change listeners
AmvChangeCompany(v) ==
    LET chosen  == [amvText EXCEPT !["company_id"] = v]
        request == WantsDocumentNumber(chosen)
    IN  /\ amvPc = "ready"
        /\ amvText["company_id"] # v
        /\ request => amvPending < MaxPending
        /\ amvFieldError' = ClearFieldError(amvFieldError, "company_id")
        /\ amvSaved' = SavedItem(chosen, amvChecked, currentInstrument, now)
        /\ amvPending' = IF request THEN amvPending + 1 ELSE amvPending
        /\ amvText' = chosen
        /\ call' = [op |-> "change", field |-> "company_id", before |-> amvText]
        /\ UNCHANGED <<notAmv, now, amvAttr, amvChecked, currentInstrument, amvSection,
                       amvRequired, amvPc>>

\* generateDocumentNumber resumes: the backend answered with `number`
AmvNumberArrives(number) ==
    /\ amvPending > 0
    /\ amvPending' = amvPending - 1
    /\ amvText' = [amvText EXCEPT !["document_number"] = number]
    /\ call' = [op |-> "numberResponse", before |-> amvText["document_number"],
                written |-> number]
    /\ UNCHANGED <<notAmv, now, amvAttr, amvChecked, currentInstrument, amvSection,
                   amvRequired, amvFieldError, amvSaved, amvPc>>

\* generateDocumentNumber resumes: the request failed or was answered not-ok, and
\* generateLocalDocumentNumber writes AMV/<year>/<random>
AmvNumberFails(localNumber) ==
    /\ amvPending > 0
    /\ amvPending' = amvPending - 1
    /\ amvText' = [amvText EXCEPT !["document_number"] = localNumber]
    /\ call' = [op |-> "numberFallback", before |-> amvText["document_number"],
                written |-> localNumber]
    /\ UNCHANGED <<notAmv, now, amvAttr, amvChecked, currentInstrument, amvSection,
                   amvRequired, amvFieldError, amvSaved, amvPc>>

\* the user toggles a val_params or parameters_to_validate checkbox
AmvToggleBox(group, v) ==
    LET toggled == IF <<group, v>> \in amvChecked THEN amvChecked \ {<<group, v>>}
                   ELSE amvChecked \cup {<<group, v>>}
    IN  /\ amvPc = "ready"
        /\ amvChecked' = toggled
        /\ amvSaved' = SavedItem(amvText, toggled, currentInstrument, now)
        /\ call' = [op |-> "toggle"]
        /\ UNCHANGED <<notAmv, now, amvText, amvAttr, currentInstrument, amvSection,
                       amvRequired, amvFieldError, amvPending, amvPc>>

\* the user picks the instrument_type radio t: the change listener of
\* bindInstrumentSelection
AmvSelectInstrument(t) ==
    LET picked  == {b \in amvChecked : b[1] # "instrument_type"}
                   \cup {<<"instrument_type", t>>}
        checked == autoSelectValidationParameters(picked, t)
    IN  /\ amvPc = "ready"
        /\ CheckedInstrument(amvChecked) # t
        /\ currentInstrument' = t
        /\ amvSection' = showInstrumentParameters(t)
        /\ amvRequired' = updateFormValidation(amvRequired, t)
        /\ amvChecked' = checked
        /\ amvSaved' = SavedItem(amvText, checked, t, now)
        /\ call' = [op |-> "instrumentChange", instrument |-> t,
                    before |-> {b \in amvChecked : b[1] = "val_params"}]
        /\ UNCHANGED <<notAmv, now, amvText, amvAttr, amvFieldError, amvPending, amvPc>>


\* loadSavedData: whether the stored item is too old to be restored
AmvSavedExpired(time, timestamp) == time - timestamp > DayMs

\* a stored item is the object its text parses to, with the properties that
\* object has; a text that is not JSON is kept as that text (json), and
\* JSON.parse throws on it
JsonParses(item) == "json" \notin DOMAIN item

\* loadSavedData: Date.now() - timestamp > 24 h; without a timestamp the age is
\* NaN, which is not over 24 hours
AmvSavedTooOld(item, time) ==
    "timestamp" \in DOMAIN item /\ AmvSavedExpired(time, item.timestamp)

\* loadSavedData: Object.entries(data) throws on an object without data
HasSavedShape(item) == "data" \in DOMAIN item

\* loadSavedData: the instrument of the stored object ("" for undefined)
SavedInstrument(item) == IF "instrument" \in DOMAIN item THEN item.instrument ELSE ""

\* loadSavedData: the text fields after Object.entries(data) was written back
RestoredText(text, data) ==
    [n \in AmvTextNames |-> IF n \in DOMAIN data THEN data[n].vals[1] ELSE text[n]]

\* loadSavedData: the checked boxes after Object.entries(data) was written back;
\* an array checks the box of each value, a single value checks the first
\* element of that name.  Checking a radio unchecks the radio of its group that
\* was checked, so of the instrument radios the one checked last stays
RestoredChecked(checked, data) ==
    LET Boxes(g) == IF g \notin DOMAIN data THEN {}
                    ELSE IF data[g].arr
                         THEN {<<g, v>> : v \in Range(data[g].vals) \cap Range(BoxOrder(g))}
                         ELSE {<<g, BoxOrder(g)[1]>>}
        vals     == data["instrument_type"].vals
        found    == {k \in 1..Len(vals) : vals[k] \in Range(InstrumentOrder)}
        last     == CHOOSE k \in found : \A j \in found : j <= k
        radios   == IF "instrument_type" \notin DOMAIN data
                    THEN {b \in checked : b[1] = "instrument_type"}
                    ELSE IF ~data["instrument_type"].arr
                    THEN {<<"instrument_type", InstrumentOrder[1]>>}
                    ELSE IF found # {}
                    THEN {<<"instrument_type", vals[last]>>}
                    ELSE {b \in checked : b[1] = "instrument_type"}
    IN  {b \in checked : b[1] # "instrument_type"}
            \cup Boxes("val_params") \cup Boxes("parameters_to_validate") \cup radios

\* loadSavedData: checking the radio of the saved instrument
RestoredInstrument(checked, instrument) ==
    IF instrument # "" /\ instrument \in InstrumentTypes
    THEN {b \in checked : b[1] # "instrument_type"} \cup {<<"instrument_type", instrument>>}
    ELSE checked

\* loadSavedData, the last step of the constructor
AmvLoadSavedData ==
    /\ amvPc = "constructing"
    /\ amvPc' = "ready"
    /\ IF ~amvSaved.present \/ ~JsonParses(amvSaved)
       THEN /\ call' = [op |-> "loadSavedData", item |-> amvSaved, time |-> now,
                        text |-> amvText, checked |-> amvChecked, restored |-> FALSE]
            /\ UNCHANGED <<amvText, amvChecked, amvSection, amvSaved>>
       ELSE IF AmvSavedTooOld(amvSaved, now)
       THEN /\ amvSaved' = NoItem
            /\ call' = [op |-> "loadSavedData", item |-> amvSaved, time |-> now,
                        text |-> amvText, checked |-> amvChecked, restored |-> FALSE]
            /\ UNCHANGED <<amvText, amvChecked, amvSection>>
       ELSE IF ~HasSavedShape(amvSaved)
       THEN /\ call' = [op |-> "loadSavedData", item |-> amvSaved, time |-> now,
                        text |-> amvText, checked |-> amvChecked, restored |-> FALSE]
            /\ UNCHANGED <<amvText, amvChecked, amvSection, amvSaved>>
       ELSE /\ amvText' = RestoredText(amvText, amvSaved.data)
            /\ amvChecked' = RestoredInstrument(RestoredChecked(amvChecked, amvSaved.data),
                                                SavedInstrument(amvSaved))
            /\ amvSection' = IF SavedInstrument(amvSaved) # ""
                                /\ SavedInstrument(amvSaved) \in InstrumentTypes
                             THEN showInstrumentParameters(SavedInstrument(amvSaved))
                             ELSE amvSection
            /\ call' = [op |-> "loadSavedData", item |-> amvSaved, time |-> now,
                        text |-> amvText, checked |-> amvChecked, restored |-> TRUE]
            /\ UNCHANGED amvSaved
    /\ UNCHANGED <<notAmv, now, amvAttr, currentInstrument, amvRequired, amvFieldError, amvPending>>

\* the AMV form as the page delivers it
AmvBlankText == [n \in AmvTextNames |-> ""]

\* no message under any text field nor under the method file input
AmvNoErrors == [n \in AmvTextNames \cup {"method_analysis_file"} |-> ""]

AmvDeclaredAttr ==
    [n \in WavelengthFields |-> [min |-> "190", max |-> "800"]]

\* the moment the page is loaded
PageLoadTime == 2 * DayMs

\* the AMV page after its constructor, nothing stored
AmvFresh ==
    /\ amvText = AmvBlankText
    /\ amvAttr = AmvDeclaredAttr
    /\ amvChecked = {}
    /\ currentInstrument = ""
    /\ amvSection = ""
    /\ amvRequired = {}
    /\ amvFieldError = AmvNoErrors
    /\ amvSaved = NoItem
    /\ amvPending = 0
    /\ amvPc = "ready"

(***************************************************************************)
(* DocumentCreationManager: the page it is bound to.                       *)
(*                                                                         *)
(* The page holds the form createDocumentForm with the basic fields, the   *)
(* document_type radios (none of them has the id document_type), the       *)
(* container #documentParameters and the file inputs, in this order, and   *)
(* after the form the hidden #parameterTemplates, one template for each    *)
(* document type, holding the fields setDocumentTypeRequirements names.    *)
(***************************************************************************)

\* the basic fields, by id
BasicFields == {"title", "company_id", "document_number", "product_name"}

\* setDocumentTypeRequirements: requirements
requirements ==
    [AMV |-> <<"active_ingredient", "analytical_method">>,
     PV |-> <<"process_name", "batch_size">>,
     Stability |-> <<"study_type", "storage_conditions">>,
     Degradation |-> <<"degradation_type", "stress_conditions">>,
     Compatibility |-> <<"drug_name", "excipients", "storage_conditions", "duration">>]

\* the document_type radios and the templates, in document order
RadioOrder == <<"AMV", "PV", "Stability", "Degradation", "Compatibility">>

\* the fields of the template of type t (none for a type without template)
TemplateFields(t) == IF t \in DOMAIN requirements THEN Range(requirements[t]) ELSE {}

ParamNames == UNION {TemplateFields(t) : t \in DOMAIN requirements}

\* the first template, in document order, that holds a field named n
FirstTemplateWith(n) ==
    RadioOrder[CHOOSE i \in 1..Len(RadioOrder) :
                  /\ n \in TemplateFields(RadioOrder[i])
                  /\ \A j \in 1..(i - 1) : n \notin TemplateFields(RadioOrder[j])]

\* the value of the radio at position r
RadioValue(firstValue, r) == IF r = 1 THEN firstValue ELSE RadioOrder[r]

\* document.querySelector(`input[name="document_type"][value="${type}"]`):
\* the position of the first radio with that value, 0 for none
RadioWithValue(firstValue, type) ==
    LET hits == {r \in 1..Len(RadioOrder) : RadioValue(firstValue, r) = type}
    IN  IF hits = {} THEN 0 ELSE CHOOSE r \in hits : \A q \in hits : r <= q

\* loadDocumentParameters: the template with id `${documentType.toLowerCase()}Parameters`
TemplateFor(documentType) ==
    LET hits == {t \in DOMAIN requirements : ToLowerCase(t) = ToLowerCase(documentType)}
    IN  IF hits = {} THEN "" ELSE CHOOSE t \in hits : TRUE

\* loadDocumentParameters: the values of the fields cloned from the template of
\* type t; a clone carries the value of the template's field
ClonedParams(t, template) ==
    [n \in ParamNames |->
        IF n \in TemplateFields(t) /\ FirstTemplateWith(n) = t THEN template[n] ELSE ""]

\* setDocumentTypeRequirements: the fields of the container carrying required
setDocumentTypeRequirements(documentType, rendered) ==
    (IF documentType \in DOMAIN requirements THEN Range(requirements[documentType]) ELSE {})
        \cap TemplateFields(rendered)

DcBlankText == [f \in BasicFields |-> ""]

DcBlankParams == [n \in ParamNames |-> ""]

\* the fields whose message names them by their label: the file inputs and the
\* fields of the templates
LabelledFields == FileInputs \cup ParamNames

\* a page without a label beside any of these fields
NoLabels == [n \in LabelledFields |-> ""]

\* a page with a label beside some of these fields
SomeLabels ==
    [n \in LabelledFields |->
        IF n = "stp_file" THEN "STP Document"
        ELSE IF n = "raw_data_file" THEN "Raw Data"
        ELSE IF n = "study_type" THEN "Study Type"
        ELSE IF n = "active_ingredient" THEN "Active Ingredient"
        ELSE ""]

\* input.closest('.mb-3')?.querySelector('label')?.textContent || input.name
LabelOrName(labels, name) == IF labels[name] # "" THEN labels[name] ELSE name

\* the file inputs of a page nobody touched yet
FuFresh ==
    /\ fuFiles = [i \in FileInputs |-> NoFile]
    /\ fuPreview = {}
    /\ fuRequired = {}
    /\ pageLabel = NoLabels
    /\ fuBanner = ""
    /\ fuProgress = -1

\* the page after the constructor ran on an untouched form whose first radio
\* is checked, nothing stored, no timer left
DcFresh ==
    /\ draft = NoItem
    /\ dcType = "AMV"
    /\ dcChecked = 1
    /\ dcFirstRadio = "AMV"
    /\ dcRendered = "AMV"
    /\ dcText = DcBlankText
    /\ dcParam = DcBlankParams
    /\ dcTemplate = DcBlankParams
    /\ dcRequired = {}
    /\ dcLoadTimer = FALSE
    /\ dcRestore = NoItem
    /\ dcNumPending = 0
    /\ dcRequest = NoItem
    /\ dcInFlight = 0
    /\ dcParsing = 0
    /\ dcDisabled = FALSE
    /\ dcNav = "none"
    /\ hasFileManager = TRUE

(***************************************************************************)
(* DashboardManager: the page it is bound to. Each searchable element lies *)
(* in a row of its own and holds plain text.                               *)
(***************************************************************************)

\* the textContent of the [data-searchable] elements, in document order
SearchableTexts == <<"AMV (UV) assay", "PV batch 7", "amv-2 Stability">>

SearchableRows == 1..Len(SearchableTexts)

\* the elements updateStatsDisplay writes, by id
StatIds == {"total-docs", "completed-docs", "draft-docs", "recent-docs"}

\* the dashboard after the constructor: init has called loadDashboardStats,
\* whose request is in flight
DbFresh ==
    /\ dbDisplay = [r \in SearchableRows |-> ""]
    /\ dbMarked = {}
    /\ dbPollTimer = FALSE
    /\ dbStatsPending = 1
    /\ dbCounter = [id \in StatIds |-> 0]
    /\ dbAnim = [id \in StatIds |-> <<>>]
    /\ dbNotice = <<>>
    /\ dbExporting = 0

\* the forms AuthManager binds, each on a page of its own
AuthForms == {"login", "register"}

\* a submit button as the page renders it
IdleButton == [disabled |-> FALSE, spinner |-> FALSE]

\* the login and the register page after the constructor of AuthManager
AuFresh ==
    /\ auButton = [f \in AuthForms |-> IdleButton]
    /\ auPhase = [f \in AuthForms |-> "idle"]
    /\ auError = [f \in AuthForms |-> [shown |-> FALSE, text |-> ""]]
    /\ auNav = [f \in AuthForms |-> FALSE]

\* the most documents the history page lists
MaxDocs == 2

\* the history page after DOMContentLoaded
HiFresh ==
    /\ hiDocs = 1..MaxDocs
    /\ hiToDelete = 0
    /\ hiModalHidden = TRUE
    /\ hiButton = IdleButton
    /\ hiPending = {}
    /\ hiAlert = ""

\* the Document Creation page opened without the parameter edit
EdFresh == dcEdit = [phase |-> "none"]

\* initSearch has not run: no listener on #dashboardSearch, no timeout
SeFresh == dbSearch = [bound |-> FALSE, input |-> "", keys |-> 0, timers |-> {}, searchTimeout |-> 0]

ChFresh == fuChange = [depth |-> 0, input |-> "none"]

\* the pages of AuthManager
AuPages == {"login", "register"}

\* no sign-in by redirect under way
NoRedirect == [phase |-> "none", page |-> ""]

\* the login page of login.js as loaded
LgAsLoaded ==
    lg = [button |-> IdleButton, form |-> "idle", google |-> "idle",
          error |-> [shown |-> FALSE, text |-> ""], nav |-> FALSE]

\* the login page of login.js as loaded, no redirect sign-in under way
LgFresh == LgAsLoaded /\ auRedirect = NoRedirect

MoreFresh == SeFresh /\ ChFresh /\ amvSent = <<>> /\ LgFresh

\* no extract-method request of the AMV page in flight, no method file chosen
ExFresh == amvExtracting = 0 /\ amvFile = NoMethodFile

\* the pages modelled after the first three, untouched
RestFresh ==
    /\ DbFresh
    /\ AuFresh
    /\ HiFresh
    /\ EdFresh
    /\ ExFresh
    /\ MoreFresh

(***************************************************************************)
(* SpecWave: validateWavelengthField on every value and declared range.    *)
(***************************************************************************)

WaveValues ==
    {"", " ", "\f", "abc", "-5", "0", "5", "199.5", "300", "500", "300abc", "1e3", "a@b.c"}

WaveMins == {"0", "200", "-10", "190.0"}

WaveMaxs == {"0", "400", "1100", "800.50"}

InitWave ==
    /\ now = PageLoadTime
    /\ call = NoCall
    /\ \E v \in WaveValues, mn \in WaveMins, mx \in WaveMaxs :
          /\ amvText = [AmvBlankText EXCEPT !["uv_wavelength"] = v]
          /\ amvAttr = [AmvDeclaredAttr EXCEPT !["uv_wavelength"] = [min |-> mn, max |-> mx]]
    /\ amvChecked = {}
    /\ currentInstrument = ""
    /\ amvSection = ""
    /\ amvRequired = {}
    /\ amvFieldError = AmvNoErrors
    /\ amvSaved = NoItem
    /\ amvPending = 0
    /\ amvPc = "ready"
    /\ FuFresh
    /\ DcFresh
    /\ RestFresh

\* the type attribute of the element that loses the focus
FieldTypes == {"text", "number", "email"}

NextWave ==
    \/ \E name \in WavelengthFields : ValidateWavelength(name)
    \/ \E name \in WavelengthFields, type \in FieldTypes : AmvBlur(name, type)

SpecWave == InitWave /\ [][NextWave]_vars

\* a decimal literal and nothing else: an optional sign, digits, an optional fraction
IsNumeric(s) ==
    LET t   == Trim(s)
        i   == IF Len(t) > 0 /\ CharAt(t, 1) \in {"-", "+"} THEN 2 ELSE 1
        ni  == DigitRun(t, i)
        dot == i + ni <= Len(t) /\ CharAt(t, i + ni) = "."
        nf  == IF dot THEN DigitRun(t, i + ni + 1) ELSE 0
    IN  ni + nf > 0 /\ i + ni + (IF dot THEN 1 + nf ELSE 0) = Len(t) + 1

\* C8: the wavelength validator answers valid exactly when the value is empty or
\* is a number v with min <= v <= max, for every declared min and max, 0 included
C8_WavelengthIffInRange ==
    call.op = "validateWavelengthField" =>
        (call.result <=>
            \/ Trim(call.value) = ""
            \/ /\ IsNumeric(call.value)
               /\ ~NumLt(ParseFloat(call.value), ParseFloat(call.min))
               /\ ~NumGt(ParseFloat(call.value), ParseFloat(call.max)))


(***************************************************************************)
(* SpecCalc: calculateUVConcentrations and calculateHPLCConcentrations on  *)
(* every form state of the four fields of a family.                        *)
(***************************************************************************)

StandardWeights == {"", "0", "3", "10", "1e1", "abc", "-5"}

SampleWeights == {"", "5", "10", "abc", "-5"}

StandardConcentrations == {"", "0", "2.5", "100"}

SampleConcentrations == {"", " ", "42"}

InitCalc ==
    /\ now = PageLoadTime
    /\ call = NoCall
    /\ \E prefix \in {"uv", "hplc"}, ws \in StandardWeights, wsam \in SampleWeights,
          conc \in StandardConcentrations, sample \in SampleConcentrations :
          amvText = [AmvBlankText EXCEPT ![prefix \o "_weight_standard"] = ws,
                                         ![prefix \o "_weight_sample"] = wsam,
                                         ![prefix \o "_final_concentration_standard"] = conc,
                                         ![prefix \o "_final_concentration_sample"] = sample]
    /\ amvAttr = AmvDeclaredAttr
    /\ amvChecked = {}
    /\ currentInstrument = ""
    /\ amvSection = ""
    /\ amvRequired = {}
    /\ amvFieldError = AmvNoErrors
    /\ amvSaved = NoItem
    /\ amvPending = 0
    /\ amvPc = "ready"
    /\ FuFresh
    /\ DcFresh
    /\ RestFresh

ApplyCalculateUV ==
    /\ amvText' = calculateUVConcentrations(amvText)
    /\ call' = [op |-> "calculateConcentrations", prefix |-> "uv", before |-> amvText]
    /\ UNCHANGED <<notAmv, now, amvAttr, amvChecked, currentInstrument, amvSection, amvRequired,
                   amvFieldError, amvSaved, amvPending, amvPc>>

ApplyCalculateHPLC ==
    /\ amvText' = calculateHPLCConcentrations(amvText)
    /\ call' = [op |-> "calculateConcentrations", prefix |-> "hplc", before |-> amvText]
    /\ UNCHANGED <<notAmv, now, amvAttr, amvChecked, currentInstrument, amvSection, amvRequired,
                   amvFieldError, amvSaved, amvPending, amvPc>>

NextCalc == ApplyCalculateUV \/ ApplyCalculateHPLC

SpecCalc == InitCalc /\ [][NextCalc]_vars

\* text is x written with exactly three decimals, x = (a / b) * c taken exactly:
\* it reads back as a multiple of 1/1000 that lies within 1/2000 of x
IsThreeDecimalsOf(text, a, b, c) ==
    LET r == ExactValue(text)
        x == ExactDivMul(a, b, c)
    IN  IF x.nan THEN text = "NaN"
        ELSE /\ IsNumeric(text)
             /\ r.den = 1000
             /\ 2 * Abs(r.num * x.den - 1000 * x.num) <= x.den

\* C6: the calculation leaves a non-empty sample-concentration field as it is;
\* on an empty one, with standard weight > 0 and standard concentration > 0, it
\* writes (sampleWeight / standardWeight) * standardConcentration with three
\* decimals; 10, 100, 5 gives 50.000
C6_DerivedFieldOnlyWhenEmpty ==
    call.op = "calculateConcentrations" =>
        LET b      == call.before
            Read(t) == ExactValue(IF t = "" THEN "0" ELSE t)
            ws     == Read(b[call.prefix \o "_weight_standard"])
            wsam   == Read(b[call.prefix \o "_weight_sample"])
            conc   == Read(b[call.prefix \o "_final_concentration_standard"])
            sample == call.prefix \o "_final_concentration_sample"
        IN  /\ b[sample] # "" => amvText[sample] = b[sample]
            /\ (b[sample] = "" /\ ExactPositive(ws) /\ ExactPositive(conc))
                  => IsThreeDecimalsOf(amvText[sample], wsam, ws, conc)
            /\ (b[sample] = "" /\ b[call.prefix \o "_weight_standard"] = "10"
                   /\ b[call.prefix \o "_final_concentration_standard"] = "100"
                   /\ b[call.prefix \o "_weight_sample"] = "5")
                  => amvText[sample] = "50.000"

\* C6 witness: the calculation ran on 10, 100, 5 with the field empty and wrote
\* 50.000, and it ran on a field holding 42
C6_Witness ==
    /\ call.op = "calculateConcentrations"
    /\ call.prefix = "uv"
    /\ call.before["uv_weight_standard"] = "10"
    /\ call.before["uv_final_concentration_standard"] = "100"
    /\ call.before["uv_weight_sample"] = "5"
    /\ call.before["uv_final_concentration_sample"] = ""
    /\ amvText["uv_final_concentration_sample"] = "50.000"

(***************************************************************************)
(* SpecInstr: instrument changes after any selection of val_params boxes.  *)
(***************************************************************************)

InitInstr ==
    /\ now = PageLoadTime
    /\ call = NoCall
    /\ AmvFresh
    /\ FuFresh
    /\ DcFresh
    /\ RestFresh

\* the boxes the user toggles by hand: two of the defaults and the one outside them
ToggledBoxes == {"specificity", "linearity", "solution_stability"}

NextInstr ==
    \/ \E v \in ToggledBoxes : AmvToggleBox("val_params", v)
    \/ \E t \in InstrumentTypes : AmvSelectInstrument(t)
    \/ \E name \in WavelengthFields : AmvBlur(name, "number")

SpecInstr == InitInstr /\ [][NextInstr]_vars

CheckedValParams == {b[2] : b \in {c \in amvChecked : c[1] = "val_params"}}

\* C7: after an instrument change to T the checked val_params are exactly the
\* default checklist of T, whatever was checked before
C7_InstrumentReplacesSelection ==
    call.op = "instrumentChange" =>
        CheckedValParams = Range(validationParameters[call.instrument])

\* C7 witness: an instrument change happened while a box outside the default
\* checklist was checked and a default one was not
C7_Witness ==
    /\ call.op = "instrumentChange"
    /\ <<"val_params", "solution_stability">> \in call.before
    /\ <<"val_params", "linearity">> \notin call.before


(***************************************************************************)
(* FileUploadManager.                                                      *)
(***************************************************************************)

\* this.maxFileSize
maxFileSize == 10 * 1024 * 1024

\* this.allowedTypes
allowedTypes ==
    [stp_file |-> <<".doc", ".docx">>,
     raw_data_file |-> <<".csv", ".xlsx", ".xls">>,
     logo |-> <<".jpg", ".jpeg", ".png", ".svg">>,
     signature |-> <<".jpg", ".jpeg", ".png", ".svg">>]

\* Array.prototype.join
RECURSIVE Join(_, _)
Join(parts, sep) ==
    IF Len(parts) = 0 THEN ""
    ELSE IF Len(parts) = 1 THEN parts[1]
    ELSE parts[1] \o sep \o Join(Tail(parts), sep)

\* getFileTypeFromInput, of the input's id (or name); "null" when nothing matches
getFileTypeFromInput(id) ==
    IF Includes(id, "stp") THEN "stp_file"
    ELSE IF Includes(id, "raw_data") \/ Includes(id, "data") THEN "raw_data_file"
    ELSE IF Includes(id, "logo") THEN "logo"
    ELSE IF Includes(id, "signature") THEN "signature"
    ELSE "null"

\* validateFile: the size check
FileTooLarge(file) == file.size > maxFileSize

\* the properties every plain object inherits from Object.prototype
ObjectPrototypeNames ==
    {"constructor", "toString", "toLocaleString", "valueOf", "hasOwnProperty",
     "isPrototypeOf", "propertyIsEnumerable", "__proto__", "__defineGetter__",
     "__defineSetter__", "__lookupGetter__", "__lookupSetter__"}

\* validateFile: fileType && this.allowedTypes[fileType]; the lookup also finds
\* what allowedTypes inherits
TypeChecked(fileType) ==
    /\ fileType \notin {"null", ""}
    /\ fileType \in DOMAIN allowedTypes \cup ObjectPrototypeNames

\* validateFile: this.allowedTypes[fileType].includes is not a function on an
\* inherited property, and the call throws a TypeError
TypeCheckThrows(fileType) == TypeChecked(fileType) /\ fileType \notin DOMAIN allowedTypes

\* validateFile: '.' + file.name.split('.').pop().toLowerCase()
FileExtension(name) == "." \o ToLowerCase(SplitPop(name))

\* validateFile: pass or fail, and the message showError is given
validateFile(file, fileType) ==
    IF FileTooLarge(file)
    THEN [ok |-> FALSE, message |-> "File size must be less than 10 MB", threw |-> FALSE]
    ELSE IF TypeCheckThrows(fileType)
    THEN [ok |-> FALSE, message |-> "", threw |-> TRUE]
    ELSE IF TypeChecked(fileType)
            /\ FileExtension(file.name) \notin Range(allowedTypes[fileType])
    THEN [ok |-> FALSE, message |-> "Invalid file type. Allowed types: "
                                    \o Join(allowedTypes[fileType], ", "), threw |-> FALSE]
    ELSE [ok |-> TRUE, message |-> "", threw |-> FALSE]

\* validateRequiredFiles: the labels of the required inputs holding no file, in
\* document order
FileInputOrder == <<"stp_file", "raw_data_file", "method_analysis_file">>

MissingInputsOf(files, required) ==
    SelectSeq(FileInputOrder, LAMBDA i : i \in required /\ files[i] = NoFile)

MissingRequired(files, required, labels) ==
    LET missing == MissingInputsOf(files, required)
    IN  [k \in 1..Len(missing) |-> LabelOrName(labels, missing[k])]

\* variant: one message for each missing input
RequiredFilesMessagesEach(missing) ==
    [k \in 1..Len(missing) |->
        "Please upload the following required files: " \o missing[k]]

\* validateRequiredFiles: the messages it hands to showError, one after the other
RequiredFilesMessages(missing) ==
    IF Len(missing) > 0
    THEN <<"Please upload the following required files: " \o Join(missing, ", ")>>
    ELSE <<>>

\* validateRequiredFiles: its return value
validateRequiredFiles(files, required) == Len(MissingInputsOf(files, required)) = 0


\* the change listener of bindFileInputs after the user browsed to file f for
\* input i: handleFileSelection
UserSelectFile(i, f) ==
    LET r == validateFile(f, getFileTypeFromInput(i))
    IN  /\ fuFiles[i] # f
        /\ fuFiles' = [fuFiles EXCEPT ![i] = f]
        /\ fuPreview' = IF r.ok THEN fuPreview \cup {i} ELSE fuPreview
        /\ fuBanner' = IF r.ok THEN fuBanner ELSE r.message
        /\ call' = [op |-> "handleFileSelection", input |-> i, result |-> r.ok]
        /\ UNCHANGED <<notFu, now, fuRequired, pageLabel, fuProgress>>

\* the drop listener of bindFileUploadAreas: handleFileSelection with the dropped file
DropFile(i, f) ==
    LET r == validateFile(f, getFileTypeFromInput(i))
    IN  /\ fuFiles' = IF r.ok THEN [fuFiles EXCEPT ![i] = f] ELSE fuFiles
        /\ fuPreview' = IF r.ok THEN fuPreview \cup {i} ELSE fuPreview
        /\ fuBanner' = IF r.ok THEN fuBanner ELSE r.message
        /\ call' = [op |-> "handleFileSelection", input |-> i, result |-> r.ok]
        /\ UNCHANGED <<notFu, now, fuRequired, pageLabel, fuProgress>>

\* the click listener of bindRemoveButtons: removeFile
RemoveFile(i) ==
    /\ i \in fuPreview
    /\ fuFiles' = [fuFiles EXCEPT ![i] = NoFile]
    /\ fuPreview' = fuPreview \ {i}
    /\ call' = [op |-> "removeFile", input |-> i]
    /\ UNCHANGED <<notFu, now, fuRequired, pageLabel, fuProgress, fuBanner>>

\* resetAllFiles: removeFile on every .file-input
ResetAllFiles ==
    /\ fuFiles' = [i \in FileInputs |-> NoFile]
    /\ fuPreview' = {}
    /\ call' = [op |-> "resetAllFiles", held |-> {i \in FileInputs : fuFiles[i] # NoFile}]
    /\ UNCHANGED <<notFu, now, fuRequired, pageLabel, fuProgress, fuBanner>>

\* the timer of showError: the banner hides after 5 seconds
BannerTimeout ==
    /\ fuBanner # ""
    /\ fuBanner' = ""
    /\ call' = [op |-> "bannerTimeout"]
    /\ UNCHANGED <<notFu, now, fuFiles, fuPreview, fuRequired, pageLabel, fuProgress>>

\* validateFile on file f for the input with id (or name) `id`
ValidateFileCall(f, id) ==
    LET fileType == getFileTypeFromInput(id)
        r        == validateFile(f, fileType)
    IN  /\ call' = [op |-> "validateFile", file |-> f, id |-> id, fileType |-> fileType,
                    result |-> r.ok, threw |-> r.threw]
        /\ fuBanner' = IF r.ok \/ r.threw THEN fuBanner ELSE r.message
        /\ UNCHANGED <<notFu, now, fuFiles, fuPreview, fuRequired, pageLabel, fuProgress>>

\* validateFile called with a field kind of the caller's own
ValidateFileOfKind(f, fileType) ==
    LET r == validateFile(f, fileType)
    IN  /\ call' = [op |-> "validateFile", file |-> f, id |-> "", fileType |-> fileType,
                    result |-> r.ok, threw |-> r.threw]
        /\ fuBanner' = IF r.ok \/ r.threw THEN fuBanner ELSE r.message
        /\ UNCHANGED <<notFu, now, fuFiles, fuPreview, fuRequired, pageLabel, fuProgress>>

\* validateRequiredFiles
ValidateRequiredFilesCall ==
    LET shown == RequiredFilesMessages(MissingRequired(fuFiles, fuRequired, pageLabel))
    IN  /\ call' = [op |-> "validateRequiredFiles", shown |-> shown,
                    result |-> validateRequiredFiles(fuFiles, fuRequired)]
        /\ fuBanner' = IF Len(shown) > 0 THEN shown[Len(shown)] ELSE fuBanner
        /\ UNCHANGED <<notFu, now, fuFiles, fuPreview, fuRequired, pageLabel, fuProgress>>

(***************************************************************************)
(* SpecValidateFile: validateFile on every file and every kind of input.   *)
(***************************************************************************)

FileNames == {"report.docx", "REPORT.DOCX", "notes.doc", "data.csv", "scan.pdf",
              "archive.tar.gz", "logo.PNG", "README", "docx", "sheet.xlsx.exe"}

FileSizes == {0, 2048, maxFileSize - 1, maxFileSize, maxFileSize + 1}

InputIds == {"stp_file", "raw_data_file", "metadata_upload", "company_logo",
             "signature_file", "method_analysis_file"}

InitValidateFile ==
    /\ now = PageLoadTime
    /\ call = NoCall
    /\ AmvFresh
    /\ FuFresh
    /\ DcFresh
    /\ RestFresh

\* field kinds a caller may hand to validateFile
FileKinds == {"stp_file", "logo", "other", "", "toString", "constructor", "__proto__",
              "hasOwnProperty"}

NextValidateFile ==
    \/ \E n \in FileNames, z \in FileSizes, id \in InputIds :
          ValidateFileCall([name |-> n, size |-> z], id)
    \/ \E n \in {"report.docx", "scan.pdf"}, z \in {2048, maxFileSize + 1}, kind \in FileKinds :
          ValidateFileOfKind([name |-> n, size |-> z], kind)

SpecValidateFile == InitValidateFile /\ [][NextValidateFile]_vars

\* the policy entries: the field kinds with a set of allowed extensions
PolicyKinds == {"stp_file", "raw_data_file", "logo", "signature"}

\* whether a file name has an extension: a dot with text after it
HasExtension(name) ==
    \E i \in 1..(Len(name) - 1) : CharAt(name, i) = "."

\* the extension of a file name that has one: the text after its last dot,
\* lower-cased, with the dot put in front
ExtensionOf(name) ==
    LET dots == {i \in 1..Len(name) : CharAt(name, i) = "."}
        last == CHOOSE i \in dots : \A j \in dots : j <= i
    IN  "." \o ToLowerCase(SubSeq(name, last + 1, Len(name)))

\* C9: validateFile, whatever the file and the field kind, answers, and passes
\* exactly when the size is at most 10 MB and the kind matches no policy entry
\* or the file has an extension that, lower-cased, is in the kind's allowed
\* set; an unmatched kind skips the type check and still fails over the limit
C9_ValidateFileIff ==
    call.op = "validateFile" =>
        /\ ~call.threw
        /\ call.result <=>
              /\ call.file.size <= 10485760
              /\ \/ call.fileType \notin PolicyKinds
                 \/ /\ HasExtension(call.file.name)
                    /\ ExtensionOf(call.file.name) \in Range(allowedTypes[call.fileType])
        /\ (call.fileType \notin PolicyKinds /\ call.file.size > 10485760) => ~call.result

(***************************************************************************)
(* SpecFiles: the file inputs of a page, any of them required.             *)
(***************************************************************************)

GoodDoc == [name |-> "report.docx", size |-> 2048]

BadDoc == [name |-> "scan.pdf", size |-> 2048]

InitFiles ==
    /\ now = PageLoadTime
    /\ call = NoCall
    /\ AmvFresh
    /\ fuFiles = [i \in FileInputs |-> NoFile]
    /\ fuPreview = {}
    /\ fuRequired \in SUBSET FileInputs
    /\ pageLabel \in {NoLabels, SomeLabels}
    /\ fuBanner = ""
    /\ fuProgress = -1
    /\ DcFresh
    /\ RestFresh

NextFiles ==
    \/ \E i \in FileInputs, f \in {GoodDoc, BadDoc} : UserSelectFile(i, f)
    \/ \E i \in FileInputs, f \in {GoodDoc, BadDoc} : DropFile(i, f)
    \/ \E i \in FileInputs : RemoveFile(i)
    \/ ResetAllFiles
    \/ BannerTimeout
    \/ ValidateRequiredFilesCall

SpecFiles == InitFiles /\ [][NextFiles]_vars

\* the required inputs that hold no file
MissingInputs == {i \in fuRequired : fuFiles[i] = NoFile}

\* C10: validateRequiredFiles fails exactly when a required input holds no file,
\* and then shows one message, which names every missing required input
C10_RequiredFilesOneMessage ==
    call.op = "validateRequiredFiles" =>
        /\ ~call.result <=> MissingInputs # {}
        /\ ~call.result =>
              /\ Len(call.shown) = 1
              /\ \A i \in MissingInputs :
                    Includes(call.shown[1], IF pageLabel[i] # "" THEN pageLabel[i] ELSE i)
        /\ call.result => Len(call.shown) = 0

\* C10 witness: validateRequiredFiles ran with two required inputs empty
C10_Witness ==
    /\ call.op = "validateRequiredFiles"
    /\ Cardinality(MissingInputs) = 2
    /\ ~call.result

(***************************************************************************)
(* DocumentCreationManager: the handlers.                                  *)
(***************************************************************************)

notDc == <<amvVars, restVars>>

\* String.prototype.toUpperCase on one character
UpperChar(c) ==
    IF \E k \in 1..26 : LowerCase[k] = c
    THEN UpperCase[CHOOSE k \in 1..26 : LowerCase[k] = c]
    ELSE c

\* fieldName.replace('_', ' ').replace(/\b\w/g, l => l.toUpperCase())
FieldLabel(fieldName) ==
    LET under  == {i \in 1..Len(fieldName) : CharAt(fieldName, i) = "_"}
        first  == IF under = {} THEN 0 ELSE CHOOSE i \in under : \A j \in under : i <= j
        IsWord(c) == IsDigit(c) \/ c = "_" \/ (\E k \in 1..26 : c \in {LowerCase[k], UpperCase[k]})
        At(i)  == IF i = first THEN " " ELSE CharAt(fieldName, i)
        Cap(i) == IF i = 1 \/ ~IsWord(At(i - 1)) THEN UpperChar(At(i)) ELSE At(i)
        Build[i \in 0..Len(fieldName)] == IF i = 0 THEN "" ELSE Build[i - 1] \o Cap(i)
    IN  Build[Len(fieldName)]

\* the entries of a sequence that satisfy Keep, in order
RECURSIVE SelectNames(_, _)
SelectNames(names, keep) ==
    IF Len(names) = 0 THEN <<>>
    ELSE (IF Head(names) \in keep THEN <<Head(names)>> ELSE <<>>)
         \o SelectNames(Tail(names), keep)

\* validateForm: the errors of the basic fields title and company_id
BasicErrors(text) ==
    LET missing == {f \in {"title", "company_id"} : Trim(text[f]) = ""}
        names   == SelectNames(<<"title", "company_id">>, missing)
    IN  [k \in 1..Len(names) |-> FieldLabel(names[k]) \o " is required"]

\* validateDocumentTypeFields: the errors of the required fields in
\* #documentParameters, each named by its label or else its name
validateDocumentTypeFields(documentType, rendered, param, required, labels) ==
    LET missing == {n \in required \cap TemplateFields(rendered) : Trim(param[n]) = ""}
        names   == IF rendered \in DOMAIN requirements
                   THEN SelectNames(requirements[rendered], missing) ELSE <<>>
    IN  [k \in 1..Len(names) |->
            LabelOrName(labels, names[k]) \o " is required for " \o documentType
                \o " documents"]

\* validateForm: the errors it collects
FormErrors(text, documentType, rendered, param, required, labels) ==
    BasicErrors(text)
        \o validateDocumentTypeFields(documentType, rendered, param, required, labels)

\* validateForm: errors.length === 0, whatever the labels are
validateForm(text, documentType, rendered, param, required) ==
    Len(FormErrors(text, documentType, rendered, param, required, NoLabels)) = 0

\* DocumentCreationManager.showError: the banner of the file upload manager
\* (an alert without it)
DcShowError(banner, manager, message) == IF manager THEN message ELSE banner

\* variant: the form always counts as filled
hasFormDataAlways(text) == TRUE

\* hasFormData
hasFormData(text) == text["title"] # "" \/ text["company_id"] # ""

\* new FormData(form): the entries of the fields that are no file inputs
FormEntries(text, checkedValue, rendered, param) ==
    LET keys == BasicFields
                \cup (IF checkedValue = "" THEN {} ELSE {"document_type"})
                \cup TemplateFields(rendered)
    IN  [k \in keys |-> IF k \in BasicFields THEN text[k]
                        ELSE IF k = "document_type" THEN checkedValue
                        ELSE param[k]]

\* the entry of a file input is a File, with or without a file chosen;
\* JSON.stringify writes {} for it, which reads back as an object without
\* properties. It is kept as the text a value setter makes of that object
StoredFile == "[object Object]"

\* getUploadedFiles: the names of the .file-input elements holding a file, in
\* document order; window.fileUploadManager?.getUploadedFiles() || {} without
\* the manager
UploadedFiles(manager, files) ==
    IF manager THEN SelectSeq(FileInputOrder, LAMBDA i : files[i] # NoFile) ELSE <<>>

\* updateFormData: this.formData, every entry of new FormData(form), the file
\* inputs' too, and the names of the uploaded files under `files`
FormDataOf(text, checkedValue, rendered, param, uploaded) ==
    LET entries == FormEntries(text, checkedValue, rendered, param)
    IN  [k \in DOMAIN entries \cup FileInputs \cup {"files"} |->
            IF k \in DOMAIN entries THEN entries[k]
            ELSE IF k = "files" THEN uploaded
            ELSE StoredFile]

\* the value of the checked document_type radio ("" with none checked)
CheckedValue(checked, firstValue) ==
    IF checked = 0 THEN "" ELSE RadioValue(firstValue, checked)

\* autoSaveDraft: the item documentDraft after it
autoSaveDraft(item, time, text, documentType, checkedValue, rendered, param, uploaded) ==
    IF hasFormData(text)
    THEN [present |-> TRUE, timestamp |-> time, documentType |-> documentType,
          formData |-> FormDataOf(text, checkedValue, rendered, param, uploaded)]
    ELSE item

\* variant: a draft of exactly 24 hours is already too old
DraftExpiredInclusive(age) == age >= DayMs

\* loadDraft: whether the draft is too old to be offered
DraftExpired(age) == age > DayMs

\* loadDraft: age > 24 h; without a timestamp the age is NaN, which is not over
\* 24 hours
DraftTooOld(item, time) ==
    "timestamp" \in DOMAIN item /\ DraftExpired(time - item.timestamp)

\* restoreDraft: draftData.documentType as the selector of selectDocumentType
\* holds it
DraftType(item) == IF "documentType" \in DOMAIN item THEN item.documentType ELSE "undefined"

\* the change listener of bindDocumentTypeSelection on the radio at position r
TypeChange(r) ==
    LET value    == RadioValue(dcFirstRadio, r)
        rendered == TemplateFor(value)
    IN  /\ dcChecked' = r
        /\ dcType' = value
        /\ dcRendered' = rendered
        /\ dcParam' = ClonedParams(rendered, dcTemplate)
        /\ dcRequired' = setDocumentTypeRequirements(value, rendered)

\* selectDocumentType
selectDocumentType(type) ==
    LET r == RadioWithValue(dcFirstRadio, type)
    IN  IF r # 0 THEN TypeChange(r)
        ELSE UNCHANGED <<dcChecked, dcType, dcRendered, dcParam, dcRequired>>

\* the user picks the document_type radio at position r
DcRadioChange(r) ==
    /\ dcNav # "navigated"
    /\ dcChecked # r
    /\ TypeChange(r)
    /\ call' = [op |-> "typeChange", type |-> RadioValue(dcFirstRadio, r)]
    /\ UNCHANGED <<notDc, fuVars, now, draft, dcFirstRadio, dcText, dcTemplate, dcLoadTimer,
                   dcRestore, dcNumPending, dcRequest, dcInFlight, dcParsing, dcDisabled, dcNav, hasFileManager>>

\* the user types v into a basic field other than the company select
DcInput(field, v) ==
    /\ dcNav # "navigated"
    /\ dcText[field] # v
    /\ dcText' = [dcText EXCEPT ![field] = v]
    /\ call' = [op |-> "dcInput", field |-> field]
    /\ UNCHANGED <<notDc, fuVars, now, draft, dcType, dcChecked, dcFirstRadio, dcRendered,
                   dcParam, dcTemplate, dcRequired, dcLoadTimer, dcRestore, dcNumPending,
                   dcRequest, dcInFlight, dcParsing, dcDisabled, dcNav, hasFileManager>>

\* generateDocumentNumber up to its fetch: whether it sends the request
DcWantsDocumentNumber(text, documentType) ==
    /\ text["company_id"] # ""
    /\ documentType # ""
    /\ Trim(text["document_number"]) = ""

\* the user picks company v: the change listener of bindParameterUpdates
DcCompanyChange(v) ==
    LET chosen  == [dcText EXCEPT !["company_id"] = v]
        request == DcWantsDocumentNumber(chosen, dcType)
    IN  /\ dcNav # "navigated"
        /\ dcText["company_id"] # v
        /\ request => dcNumPending < MaxPending
        /\ dcText' = chosen
        /\ dcNumPending' = IF request THEN dcNumPending + 1 ELSE dcNumPending
        /\ call' = [op |-> "dcCompanyChange", requested |-> request]
        /\ UNCHANGED <<notDc, fuVars, now, draft, dcType, dcChecked, dcFirstRadio, dcRendered,
                       dcParam, dcTemplate, dcRequired, dcLoadTimer, dcRestore, dcRequest, dcInFlight, dcParsing,
                       dcDisabled, dcNav, hasFileManager>>

\* generateDocumentNumber resumes: the backend answered, ok or not
DcNumberArrives(ok, number) ==
    /\ dcNav # "navigated"
    /\ dcNumPending > 0
    /\ dcNumPending' = dcNumPending - 1
    /\ dcText' = IF ok THEN [dcText EXCEPT !["document_number"] = number] ELSE dcText
    /\ call' = IF ok
               THEN [op |-> "dcNumberResponse", before |-> dcText["document_number"],
                     written |-> number]
               ELSE [op |-> "dcNumberNotOk"]
    /\ UNCHANGED <<notDc, fuVars, now, draft, dcType, dcChecked, dcFirstRadio, dcRendered,
                   dcParam, dcTemplate, dcRequired, dcLoadTimer, dcRestore, dcRequest, dcInFlight, dcParsing,
                   dcDisabled, dcNav, hasFileManager>>

\* the user changes the field `name` of #documentParameters to v: the change
\* listener of bindParameterEvents (updateFormData, validateForm)
DcParamChange(name, v) ==
    LET param  == [dcParam EXCEPT ![name] = v]
        errors == FormErrors(dcText, dcType, dcRendered, param, dcRequired, pageLabel)
    IN  /\ dcNav # "navigated"
        /\ name \in TemplateFields(dcRendered)
        /\ dcParam[name] # v
        /\ dcParam' = param
        /\ fuBanner' = IF Len(errors) > 0
                       THEN DcShowError(fuBanner, hasFileManager, Join(errors, "\n"))
                       ELSE fuBanner
        /\ call' = [op |-> "dcParamChange", field |-> name]
        /\ UNCHANGED <<notDc, now, fuFiles, fuPreview, fuRequired, pageLabel, fuProgress, draft, dcType, dcChecked,
                       dcFirstRadio, dcRendered, dcText, dcTemplate, dcRequired, dcLoadTimer,
                       dcRestore, dcNumPending, dcRequest, dcInFlight, dcParsing, dcDisabled, dcNav, hasFileManager>>

\* the 30-second timer of bindDraftSaving: autoSaveDraft
DcAutoSaveTimer ==
    /\ dcNav # "navigated"
    /\ draft' = autoSaveDraft(draft, now, dcText, dcType,
                              CheckedValue(dcChecked, dcFirstRadio), dcRendered, dcParam,
                              UploadedFiles(hasFileManager, fuFiles))
    /\ call' = [op |-> "autoSaveDraft", saved |-> hasFormData(dcText)]
    /\ UNCHANGED <<notDc, fuVars, now, dcType, dcChecked, dcFirstRadio, dcRendered, dcText,
                   dcParam, dcTemplate, dcRequired, dcLoadTimer, dcRestore, dcNumPending,
                   dcRequest, dcInFlight, dcParsing, dcDisabled, dcNav, hasFileManager>>

\* the 500 ms timer set on DOMContentLoaded: loadDraft; `answer` is what the
\* user answers if confirm() is shown
DcLoadDraft(answer) ==
    /\ dcLoadTimer
    /\ dcNav # "navigated"
    /\ dcLoadTimer' = FALSE
    /\ IF ~draft.present \/ ~JsonParses(draft)
       THEN /\ call' = [op |-> "loadDraft", item |-> draft, time |-> now,
                        prompted |-> FALSE, restoring |-> FALSE,
                        text |-> dcText, param |-> dcParam]
            /\ UNCHANGED <<draft, dcRestore, dcChecked, dcType, dcRendered, dcParam, dcRequired>>
       ELSE IF DraftTooOld(draft, now)
       THEN /\ draft' = NoItem
            /\ call' = [op |-> "loadDraft", item |-> draft, time |-> now,
                        prompted |-> FALSE, restoring |-> FALSE,
                        text |-> dcText, param |-> dcParam]
            /\ UNCHANGED <<dcRestore, dcChecked, dcType, dcRendered, dcParam, dcRequired>>
       ELSE IF answer
       THEN /\ selectDocumentType(DraftType(draft))
            /\ dcRestore' = [present |-> TRUE, data |-> draft]
            /\ call' = [op |-> "loadDraft", item |-> draft, time |-> now,
                        prompted |-> TRUE, restoring |-> TRUE,
                        text |-> dcText, param |-> dcParam]
            /\ UNCHANGED draft
       ELSE /\ call' = [op |-> "loadDraft", item |-> draft, time |-> now,
                        prompted |-> TRUE, restoring |-> FALSE,
                        text |-> dcText, param |-> dcParam]
            /\ UNCHANGED <<draft, dcRestore, dcChecked, dcType, dcRendered, dcParam, dcRequired>>
    /\ UNCHANGED <<notDc, fuVars, now, dcFirstRadio, dcText, dcTemplate, dcNumPending,
                   dcRequest, dcInFlight, dcParsing, dcDisabled, dcNav, hasFileManager>>

\* restoreDraft: the element document.getElementById(key) ||
\* document.querySelector(`[name="${key}"]`) finds, as <<owner, name>>: a basic
\* field or the first radio ("basic"), the field of the rendered template, or
\* the field of the first hidden template with that name; "none" if there is none
FieldFor(key, rendered) ==
    IF key \in BasicFields \cup {"document_type"} THEN <<"basic", key>>
    ELSE IF key \in FileInputs THEN <<"file", key>>
    ELSE IF key \in TemplateFields(rendered) THEN <<rendered, key>>
    ELSE IF key \in ParamNames THEN <<FirstTemplateWith(key), key>>
    ELSE <<"none", key>>

\* restoreDraft: the entries of draftData.formData (none when the draft has no
\* formData)
DraftEntries(item) ==
    IF "formData" \in DOMAIN item THEN item.formData ELSE [k \in {} |-> ""]

\* restoreDraft: whether its timer ends in an exception: Object.entries throws
\* a TypeError on undefined, and field.value = {} an InvalidStateError on a
\* file input
RestoreThrows(item) ==
    \/ "formData" \notin DOMAIN item
    \/ DOMAIN item.formData \cap FileInputs # {}

\* restoreDraft: the fields its timer writes; the entries of the file inputs
\* come after those of the other fields
RestoreWrites(formData, rendered) ==
    {FieldFor(k, rendered) : k \in DOMAIN formData \ {"files"}}
        \ {<<o, k>> : o \in {"none", "file"}, k \in DOMAIN formData}

\* the 100 ms timer of restoreDraft
DcRestoreTimer ==
    LET data == DraftEntries(dcRestore.data)
        keys == DOMAIN data \ ({"files"} \cup FileInputs)
    IN  /\ dcRestore.present
        /\ dcNav # "navigated"
        /\ dcRestore' = NoItem
        /\ dcText' = [f \in BasicFields |-> IF f \in keys THEN data[f] ELSE dcText[f]]
        /\ dcFirstRadio' = IF "document_type" \in keys THEN data["document_type"]
                           ELSE dcFirstRadio
        /\ dcParam' = [n \in ParamNames |->
                          IF n \in keys /\ n \in TemplateFields(dcRendered)
                          THEN data[n] ELSE dcParam[n]]
        /\ dcTemplate' = [n \in ParamNames |->
                             IF n \in keys /\ n \notin TemplateFields(dcRendered)
                             THEN data[n] ELSE dcTemplate[n]]
        /\ call' = [op |-> "restoreDraft", documentType |-> DraftType(dcRestore.data),
                    written |-> RestoreWrites(data, dcRendered),
                    threw |-> RestoreThrows(dcRestore.data)]
        /\ UNCHANGED <<notDc, fuVars, now, draft, dcType, dcChecked, dcRendered, dcRequired,
                       dcLoadTimer, dcNumPending, dcRequest, dcInFlight, dcParsing, dcDisabled, dcNav, hasFileManager>>

\* variant: the files are not looked at
FilesGateSkipped(manager, files, required) == TRUE

\* handleFormSubmission: !window.fileUploadManager?.validateRequiredFiles()
FilesGate(manager, files, required) == manager /\ validateRequiredFiles(files, required)

\* the most create requests in flight the model follows
MaxInFlight == 2

\* variant: the loading state leaves the button enabled
SubmitNeverDisabled(isLoading) == FALSE

\* setSubmitLoadingState: the disabled property it gives the submit button
\* (its label shows the spinner exactly while it is disabled)
setSubmitLoadingState(isLoading) == isLoading

\* the submit listener of bindFormSubmission: handleFormSubmission up to its
\* fetch; a disabled submit button submits nothing
DcSubmit ==
    LET errors  == FormErrors(dcText, dcType, dcRendered, dcParam, dcRequired, pageLabel)
        formOk  == validateForm(dcText, dcType, dcRendered, dcParam, dcRequired)
        filesOk == FilesGate(hasFileManager, fuFiles, fuRequired)
        shown   == RequiredFilesMessages(MissingRequired(fuFiles, fuRequired, pageLabel))
    IN  /\ dcNav # "navigated"
        /\ ~dcDisabled
        /\ dcInFlight < MaxInFlight
        /\ IF ~formOk
           THEN /\ fuBanner' = DcShowError(fuBanner, hasFileManager, Join(errors, "\n"))
                /\ UNCHANGED <<dcRequest, dcInFlight, dcDisabled, fuProgress>>
           ELSE IF ~filesOk
           THEN /\ fuBanner' = IF hasFileManager /\ Len(shown) > 0
                               THEN shown[Len(shown)] ELSE fuBanner
                /\ UNCHANGED <<dcRequest, dcInFlight, dcDisabled, fuProgress>>
           ELSE /\ dcDisabled' = setSubmitLoadingState(TRUE)
                /\ dcInFlight' = dcInFlight + 1
                /\ dcRequest' = [present |-> TRUE,
                                 formData |-> FormEntries(dcText,
                                                  IF dcChecked = 0 THEN dcType
                                                  ELSE CheckedValue(dcChecked, dcFirstRadio),
                                                  dcRendered, dcParam),
                                 files |-> {i \in FileInputs : fuFiles[i] # NoFile}]
                /\ fuProgress' = IF hasFileManager THEN 30 ELSE fuProgress
                /\ UNCHANGED fuBanner
        /\ call' = [op |-> "handleFormSubmission", formValid |-> formOk,
                    sent |-> formOk /\ filesOk]
        /\ UNCHANGED <<notDc, now, fuFiles, fuPreview, fuRequired, pageLabel, draft, dcType, dcChecked,
                       dcFirstRadio, dcRendered, dcText, dcParam, dcTemplate, dcRequired,
                       dcLoadTimer, dcRestore, dcNumPending, dcParsing, dcNav, hasFileManager>>

\* handleFormSubmission resumes after `await fetch`: the response of the backend
\* has arrived and response.json() is awaited
DcResponseArrives ==
    /\ dcInFlight > dcParsing
    /\ dcNav # "navigated"
    /\ dcParsing' = dcParsing + 1
    /\ fuProgress' = IF hasFileManager THEN 70 ELSE fuProgress
    /\ call' = [op |-> "responseArrives"]
    /\ UNCHANGED <<notDc, now, fuFiles, fuPreview, fuRequired, pageLabel, fuBanner, draft, dcType,
                   dcChecked, dcFirstRadio, dcRendered, dcText, dcParam, dcTemplate, dcRequired,
                   dcLoadTimer, dcRestore, dcNumPending, dcRequest, dcInFlight, dcDisabled, dcNav,
                   hasFileManager>>

\* the answers of the backend to a create request: success, or none with or
\* without an error text
CreateResults ==
    {[success |-> TRUE], [success |-> FALSE], [success |-> FALSE, error |-> "Title already used"]}

\* result.error || 'Document creation failed'
CreateErrorMessage(result) ==
    IF "error" \in DOMAIN result /\ result.error # "" THEN result.error
    ELSE "Document creation failed"

\* the catch and the finally of handleFormSubmission
DcCreateFailed(message) ==
    /\ fuBanner' = DcShowError(fuBanner, hasFileManager, message)
    /\ fuProgress' = IF hasFileManager THEN -1 ELSE fuProgress
    /\ dcDisabled' = setSubmitLoadingState(FALSE)
    /\ dcInFlight' = dcInFlight - 1
    /\ dcRequest' = IF dcInFlight = 1 THEN NoItem ELSE dcRequest
    /\ UNCHANGED <<notDc, now, fuFiles, fuPreview, fuRequired, pageLabel, draft, dcType, dcChecked,
                   dcFirstRadio, dcRendered, dcText, dcParam, dcTemplate, dcRequired,
                   dcLoadTimer, dcRestore, dcNumPending, dcNav, hasFileManager>>

\* handleFormSubmission resumes after `await response.json()` with the answer
\* of the backend
DcCreateResponse(result) ==
    /\ dcParsing > 0
    /\ dcNav # "navigated"
    /\ dcParsing' = dcParsing - 1
    /\ call' = [op |-> "createResponse", success |-> result.success]
    /\ IF result.success
       THEN /\ draft' = NoItem
            /\ dcNav' = "timer"
            /\ fuProgress' = IF hasFileManager THEN 100 ELSE fuProgress
            /\ dcDisabled' = setSubmitLoadingState(FALSE)
            /\ dcInFlight' = dcInFlight - 1
            /\ dcRequest' = IF dcInFlight = 1 THEN NoItem ELSE dcRequest
            /\ UNCHANGED <<notDc, now, fuFiles, fuPreview, fuRequired, pageLabel, fuBanner,
                           dcType, dcChecked, dcFirstRadio, dcRendered, dcText, dcParam,
                           dcTemplate, dcRequired, dcLoadTimer, dcRestore, dcNumPending,
                           hasFileManager>>
       ELSE DcCreateFailed(CreateErrorMessage(result))

\* the messages of the errors the engine raises for a fetch or a response.json()
\* that fails; their wording is the engine's
EngineMessages == {"Failed to fetch"}

\* handleFormSubmission resumes in its catch: the fetch was rejected (parsing
\* FALSE), or response.json() was (parsing TRUE), with an error of `message`
DcCreateRejects(parsing, message) ==
    /\ IF parsing THEN dcParsing > 0 ELSE dcInFlight > dcParsing
    /\ dcNav # "navigated"
    /\ dcParsing' = IF parsing THEN dcParsing - 1 ELSE dcParsing
    /\ call' = [op |-> "createRejects", parsing |-> parsing, message |-> message]
    /\ DcCreateFailed(message)

\* the 1 s timer of handleFormSubmission sets window.location.href: the
\* beforeunload listener of bindDraftSaving runs and the page is left
DcNavigate ==
    /\ dcNav = "timer"
    /\ dcNav' = "navigated"
    /\ draft' = autoSaveDraft(draft, now, dcText, dcType,
                              CheckedValue(dcChecked, dcFirstRadio), dcRendered, dcParam,
                              UploadedFiles(hasFileManager, fuFiles))
    /\ call' = [op |-> "navigate"]
    /\ UNCHANGED <<notDc, fuVars, now, dcType, dcChecked, dcFirstRadio, dcRendered, dcText,
                   dcParam, dcTemplate, dcRequired, dcLoadTimer, dcRestore, dcNumPending,
                   dcRequest, dcInFlight, dcParsing, dcDisabled, hasFileManager>>

\* the most the clock advances after the page was loaded
MaxClock == 2

\* time passes
Tick ==
    /\ now < PageLoadTime + MaxClock
    /\ now' = now + 1
    /\ call' = [op |-> "tick"]
    /\ UNCHANGED <<amvVars, fuVars, dcVars, restVars>>

(***************************************************************************)
(* SpecLoad: both pages are loaded with any item in storage.               *)
(***************************************************************************)

\* the timestamps of the stored items: 24 hours and 1 ms, 24 hours, and less
\* before the page is loaded, and one ahead of the clock
StoredTimestamps ==
    {PageLoadTime - DayMs - 1, PageLoadTime - DayMs, PageLoadTime - DayMs + 1,
     PageLoadTime - 1, PageLoadTime + 5}

\* a Stability draft as autoSaveDraft writes it
StabilityDraft(timestamp) ==
    autoSaveDraft(NoItem, timestamp,
                  [DcBlankText EXCEPT !["title"] = "T", !["company_id"] = "1"],
                  "Stability", "Stability", "Stability",
                  [DcBlankParams EXCEPT !["study_type"] = "long",
                                        !["storage_conditions"] = "25C"], <<>>)

\* a Compatibility draft as autoSaveDraft writes it
CompatibilityDraft(timestamp) ==
    autoSaveDraft(NoItem, timestamp,
                  [DcBlankText EXCEPT !["title"] = "C"],
                  "Compatibility", "Compatibility", "Compatibility",
                  [DcBlankParams EXCEPT !["drug_name"] = "D",
                                        !["storage_conditions"] = "30C"], <<>>)

\* a draft of a type this page has no radio and no template for
ForeignDraft(timestamp) ==
    [present |-> TRUE, timestamp |-> timestamp, documentType |-> "Cleaning",
     formData |-> [k \in {"title", "document_type", "equipment"} |->
                      IF k = "title" THEN "F"
                      ELSE IF k = "document_type" THEN "Cleaning" ELSE "E"]]

\* an amvFormData item as saveFormData writes it
AmvStored(timestamp) ==
    SavedItem([AmvBlankText EXCEPT !["document_title"] = "T", !["uv_wavelength"] = "254"],
              {<<"instrument_type", "hplc">>, <<"val_params", "linearity">>,
               <<"val_params", "system_precision">>},
              "hplc", timestamp)

InitLoad ==
    /\ now = PageLoadTime
    /\ call = NoCall
    /\ amvText = AmvBlankText
    /\ amvAttr = AmvDeclaredAttr
    /\ amvChecked = {}
    /\ currentInstrument = ""
    /\ amvSection = ""
    /\ amvRequired = {}
    /\ amvFieldError = AmvNoErrors
    /\ amvSaved \in {NoItem} \cup {AmvStored(t) : t \in StoredTimestamps}
    /\ amvPending = 0
    /\ amvPc = "constructing"
    /\ FuFresh
    /\ draft \in {NoItem} \cup {StabilityDraft(t) : t \in StoredTimestamps}
                          \cup {ForeignDraft(t) : t \in StoredTimestamps}
    /\ dcType = "AMV"
    /\ dcChecked = 1
    /\ dcFirstRadio = "AMV"
    /\ dcRendered = "AMV"
    /\ dcText = DcBlankText
    /\ dcParam = DcBlankParams
    /\ dcTemplate = DcBlankParams
    /\ dcRequired = {}
    /\ dcLoadTimer = TRUE
    /\ dcRestore = NoItem
    /\ dcNumPending = 0
    /\ dcRequest = NoItem
    /\ dcInFlight = 0
    /\ dcParsing = 0
    /\ dcDisabled = FALSE
    /\ dcNav = "none"
    /\ hasFileManager = TRUE
    /\ RestFresh

NextLoad ==
    \/ Tick
    \/ AmvLoadSavedData
    \/ \E answer \in BOOLEAN : DcLoadDraft(answer)
    \/ DcRestoreTimer

SpecLoad == InitLoad /\ [][NextLoad]_vars

\* C1: at page load, an item older than 24 hours is removed from storage and
\* nothing is restored from it; an item of 24 hours or less is kept and offered:
\* loadDraft asks the user, loadSavedData restores it
C1_DraftExpiry ==
    /\ (call.op = "loadDraft" /\ call.item.present) =>
          LET a == call.time - call.item.timestamp
          IN  /\ a > 24 * 60 * 60 * 1000 =>
                    /\ ~draft.present
                    /\ ~call.prompted
                    /\ ~dcRestore.present
                    /\ dcText = call.text /\ dcParam = call.param
              /\ a <= 24 * 60 * 60 * 1000 =>
                    /\ draft = call.item
                    /\ call.prompted
    /\ (call.op = "loadSavedData" /\ call.item.present) =>
          LET a == call.time - call.item.timestamp
          IN  /\ a > 24 * 60 * 60 * 1000 =>
                    /\ ~amvSaved.present
                    /\ ~call.restored
                    /\ amvText = call.text /\ amvChecked = call.checked
              /\ a <= 24 * 60 * 60 * 1000 =>
                    /\ amvSaved = call.item
                    /\ call.restored
                    /\ amvText["uv_wavelength"] = "254"

\* C1 witness: loadSavedData just removed an item of 24 hours and 1 ms, after
\* loadDraft kept a draft of exactly 24 hours, which the user chose to restore
C1_Witness ==
    /\ call.op = "loadSavedData"
    /\ call.item.present
    /\ call.time - call.item.timestamp = DayMs + 1
    /\ ~amvSaved.present
    /\ now = PageLoadTime
    /\ ~dcLoadTimer
    /\ draft.present
    /\ now - draft.timestamp = DayMs
    /\ dcRestore.present

(***************************************************************************)
(* SpecRestore: the creation page is loaded with a fresh draft in storage. *)
(***************************************************************************)

\* the radios the user picks: Stability and Compatibility
PickedRadios == {3, 5}

InitRestore ==
    /\ now = PageLoadTime
    /\ call = NoCall
    /\ AmvFresh
    /\ FuFresh
    /\ draft \in {StabilityDraft(PageLoadTime - 1), CompatibilityDraft(PageLoadTime - 1),
                  ForeignDraft(PageLoadTime - 1)}
    /\ dcType = "AMV"
    /\ dcChecked = 1
    /\ dcFirstRadio = "AMV"
    /\ dcRendered = "AMV"
    /\ dcText = DcBlankText
    /\ dcParam = DcBlankParams
    /\ dcTemplate = DcBlankParams
    /\ dcRequired = {}
    /\ dcLoadTimer = TRUE
    /\ dcRestore = NoItem
    /\ dcNumPending = 0
    /\ dcRequest = NoItem
    /\ dcInFlight = 0
    /\ dcParsing = 0
    /\ dcDisabled = FALSE
    /\ dcNav = "none"
    /\ hasFileManager = TRUE
    /\ RestFresh

NextRestore ==
    \/ \E answer \in BOOLEAN : DcLoadDraft(answer)
    \/ DcRestoreTimer
    \/ \E r \in PickedRadios : DcRadioChange(r)
    \/ DcInput("title", "T2")
    \/ DcParamChange("storage_conditions", "40C")
    \/ DcAutoSaveTimer

SpecRestore == InitRestore /\ [][NextRestore]_vars

\* C2: every field restoreDraft writes is a basic field or a field of the
\* template of the type stored in the record
C2_RestoreWritesOnlyRecordType ==
    call.op = "restoreDraft" =>
        \A w \in call.written : w[1] \in {"basic", call.documentType}

(***************************************************************************)
(* SpecSubmit: the creation form is filled in and submitted.               *)
(***************************************************************************)

InitSubmit ==
    /\ now = PageLoadTime
    /\ call = NoCall
    /\ AmvFresh
    /\ fuFiles = [i \in FileInputs |-> NoFile]
    /\ fuPreview = {}
    /\ fuRequired \in {{}, {"stp_file"}}
    /\ pageLabel \in {NoLabels, SomeLabels}
    /\ fuBanner = ""
    /\ fuProgress = -1
    /\ draft = NoItem
    /\ dcType = "AMV"
    /\ dcChecked = 1
    /\ dcFirstRadio = "AMV"
    /\ dcRendered = "AMV"
    /\ dcText = DcBlankText
    /\ dcParam = DcBlankParams
    /\ dcTemplate = DcBlankParams
    /\ dcRequired = {}
    /\ dcLoadTimer = FALSE
    /\ dcRestore = NoItem
    /\ dcNumPending = 0
    /\ dcRequest = NoItem
    /\ dcInFlight = 0
    /\ dcParsing = 0
    /\ dcDisabled = FALSE
    /\ dcNav = "none"
    /\ hasFileManager \in BOOLEAN
    /\ RestFresh

NextSubmit ==
    \/ \E v \in {"T", " "} : DcInput("title", v)
    \/ DcCompanyChange("1")
    \/ DcNumberArrives(TRUE, "DOC-1")
    \/ DcRadioChange(3)
    \/ DcParamChange("study_type", "long")
    \/ UserSelectFile("stp_file", GoodDoc)
    \/ DcSubmit
    \/ DcResponseArrives
    \/ \E result \in CreateResults : DcCreateResponse(result)
    \/ \E parsing \in BOOLEAN, message \in EngineMessages : DcCreateRejects(parsing, message)
    \/ DcAutoSaveTimer
    \/ DcNavigate

SpecSubmit == InitSubmit /\ [][NextSubmit]_vars

\* C3: after a successful submission the draft is absent when the page navigates
C3_DraftAbsentAtNavigation ==
    dcNav = "navigated" => ~draft.present

\* C5: a submit attempt sends the create request and enters the loading state
\* only if the form passed validateForm and the required files passed
\* validateRequiredFiles; if either fails there is no request
C5_BothGates ==
    call.op = "handleFormSubmission" =>
        LET formOk  == /\ Trim(dcText["title"]) # ""
                       /\ Trim(dcText["company_id"]) # ""
                       /\ \A n \in dcRequired : Trim(dcParam[n]) # ""
            filesOk == /\ hasFileManager
                       /\ \A i \in fuRequired : fuFiles[i] # NoFile
        IN  /\ call.sent <=> (dcRequest.present /\ dcDisabled)
            /\ call.sent => formOk /\ filesOk
            /\ (~formOk \/ ~filesOk) => (~dcRequest.present /\ ~dcDisabled)

\* C13: while a create request is pending the submit button is disabled, and
\* no more than one create request is in flight
C13_OneCreateInFlight ==
    /\ dcInFlight <= 1
    /\ dcInFlight > 0 => dcDisabled /\ dcRequest.present

\* C13 witness: a create request is in flight and the clock of the page went on
C13_Witness ==
    /\ dcInFlight = 1
    /\ dcDisabled
    /\ call.op # "handleFormSubmission"

\* C5 witness: an attempt passed validateForm and was stopped by a missing
\* required file
C5_Witness ==
    /\ call.op = "handleFormSubmission"
    /\ call.formValid
    /\ ~call.sent
    /\ hasFileManager
    /\ "stp_file" \in fuRequired
    /\ fuFiles["stp_file"] = NoFile
    /\ ~dcRequest.present

(***************************************************************************)
(* SpecDocNum: document numbers are requested while the user types.        *)
(***************************************************************************)

InitDocNum ==
    /\ now = PageLoadTime
    /\ call = NoCall
    /\ AmvFresh
    /\ FuFresh
    /\ DcFresh
    /\ RestFresh

NextDocNum ==
    \/ \E v \in {"", "MAN-7"} : DcInput("document_number", v)
    \/ \E v \in {"", "1"} : DcCompanyChange(v)
    \/ \E ok \in BOOLEAN : DcNumberArrives(ok, "DOC-1")
    \/ \E v \in {"", "T"} : AmvInput("document_title", v)
    \/ \E v \in {"", "MAN-7"} : AmvInput("document_number", v)
    \/ \E v \in {"", "1"} : AmvChangeCompany(v)
    \/ AmvNumberArrives("AMV-1")
    \/ AmvNumberFails("AMV/2026/0042")

SpecDocNum == InitDocNum /\ [][NextDocNum]_vars

\* C4: a generated number is written only into a document-number field that is
\* still empty when the response arrives; what the user typed meanwhile stays
C4_NumberOnlyIfStillEmpty ==
    /\ (call.op \in {"numberResponse", "numberFallback"} /\ call.before # "") =>
          amvText["document_number"] = call.before
    /\ (call.op = "dcNumberResponse" /\ call.before # "") =>
          dcText["document_number"] = call.before

(***************************************************************************)
(* DashboardManager: the handlers.                                         *)
(***************************************************************************)

notDb == <<amvVars, fuVars, dcVars, auVars, hiVars, edVars, exVars, moreVars>>

\* new RegExp(`(${term})`, 'gi') of highlightSearchTerm: whether the pattern
\* compiles, for a term without backslash, brace or bracket pair: the
\* parentheses of the term balance, and no quantifier stands where nothing can
\* be repeated
RegExpCompiles(term) ==
    LET n == Len(term)
        Depth[i \in 0..n] ==
            IF i = 0 THEN 0
            ELSE IF CharAt(term, i) = "(" THEN Depth[i - 1] + 1
            ELSE IF CharAt(term, i) = ")" THEN Depth[i - 1] - 1
            ELSE Depth[i - 1]
        IsQuantifier(c) == c \in {"*", "+", "?"}
        NothingBefore(i) == i = 1 \/ CharAt(term, i - 1) \in {"(", "|"}
    IN  /\ \A i \in 0..n : Depth[i] >= 0
        /\ Depth[n] = 0
        /\ \A i \in 1..n : IsQuantifier(CharAt(term, i)) => ~NothingBefore(i)
        /\ \A i \in 2..n : (CharAt(term, i) \in {"*", "+"}) => ~IsQuantifier(CharAt(term, i - 1))
        /\ \A i \in 1..n : CharAt(term, i) # "["

\* a term without its parentheses
RECURSIVE GroupsRemoved(_, _)
GroupsRemoved(term, i) ==
    IF i > Len(term) THEN ""
    ELSE (IF CharAt(term, i) \in {"(", ")"} THEN "" ELSE SubSeq(term, i, i))
         \o GroupsRemoved(term, i + 1)

\* highlightSearchTerm: whether text.replace(regex, '<mark>$1</mark>') writes a
\* <mark> into the element, which it does when the pattern (term) with the
\* flags gi finds a match in the text.  For a term that lies in one of the
\* texts of this page, letter case aside (performSearch passes no other on),
\* the pattern is made of letters, digits, spaces, hyphens and parentheses: the
\* parentheses group and match no character, so what it matches is the term
\* without them, in either letter case; an empty pattern matches at every place
HighlightFinds(text, term) ==
    Includes(ToLowerCase(text), ToLowerCase(GroupsRemoved(term, 1)))

\* the loop of performSearch over the searchable elements from row r on: each
\* row is shown and highlighted, or hidden; highlightSearchTerm throws when its
\* pattern does not compile, which ends the loop, and otherwise writes the
\* element anew, with the <mark> elements of this term and no other
RECURSIVE SearchFrom(_, _, _, _)
SearchFrom(r, query, display, marked) ==
    IF r > Len(SearchableTexts) THEN [display |-> display, marked |-> marked, thrown |-> FALSE]
    ELSE IF Includes(ToLowerCase(SearchableTexts[r]), ToLowerCase(query))
    THEN IF RegExpCompiles(query)
         THEN SearchFrom(r + 1, query, [display EXCEPT ![r] = ""],
                         IF HighlightFinds(SearchableTexts[r], query)
                         THEN marked \cup {r} ELSE marked \ {r})
         ELSE [display |-> [display EXCEPT ![r] = ""], marked |-> marked, thrown |-> TRUE]
    ELSE SearchFrom(r + 1, query, [display EXCEPT ![r] = "none"], marked)

\* clearSearch
clearSearch == [display |-> [r \in SearchableRows |-> ""], marked |-> {}, thrown |-> FALSE]

\* performSearch
performSearch(query, display, marked) ==
    IF Trim(query) = "" THEN clearSearch ELSE SearchFrom(1, query, display, marked)

\* the page after performSearch(query) left the rows as `after`
DbSearched(query, after) ==
    /\ dbDisplay' = after.display
    /\ dbMarked' = after.marked
    /\ call' = [op |-> "performSearch", query |-> query, thrown |-> after.thrown]
    /\ UNCHANGED <<notDb, now, dbPollTimer, dbStatsPending, dbCounter, dbAnim, dbNotice,
                   dbExporting>>

\* performSearch is called with `query`
DbPerformSearch(query) == DbSearched(query, performSearch(query, dbDisplay, dbMarked))

\* animateNumber: the interval it starts on an element displaying the number
\* `shown`, which is parseInt(element.textContent) || 0; `current` is the
\* variable the callbacks add the increment to
animateNumber(shown, targetValue) ==
    [from |-> shown, current |-> Num(shown),
     increment |-> NumDiv(Num(targetValue - shown), Num(20)), target |-> targetValue]

\* the test of the callback: the increment points up and current is at or over
\* the target, or it points down and current is at or under it
AnimateReached(increment, current, targetValue) ==
    \/ NumGt(increment, Zero(FALSE)) /\ NumGe(current, targetValue)
    \/ NumLt(increment, Zero(FALSE)) /\ NumLe(current, targetValue)

\* the callback after current += increment made `current`: the interval after
\* it, whether it was cleared, and the number Math.floor(current) it writes
AnimateAfter(timer, current) ==
    IF AnimateReached(timer.increment, current, Num(timer.target))
    THEN [timer |-> [timer EXCEPT !.current = Num(timer.target)], cleared |-> TRUE,
          shown |-> timer.target]
    ELSE [timer |-> [timer EXCEPT !.current = current], cleared |-> FALSE,
          shown |-> IntOf(MathFloor(current))]

\* one callback of an animateNumber interval
AnimateStep(timer) == AnimateAfter(timer, NumAdd(timer.current, timer.increment))

\* the most intervals on one element the model follows
MaxIntervals == 2

\* loadDashboardStats resumes: the response is not ok or the fetch failed (ok
\* FALSE), or it carries `stats`, which updateStatsDisplay animates: one more
\* interval on each element, beside those that run
DbStatsArrive(ok, stats) ==
    /\ dbStatsPending > 0
    /\ ok => \A id \in StatIds : Len(dbAnim[id]) < MaxIntervals
    /\ dbStatsPending' = dbStatsPending - 1
    /\ dbAnim' = IF ok
                 THEN [id \in StatIds |->
                          Append(dbAnim[id], animateNumber(dbCounter[id], stats[id]))]
                 ELSE dbAnim
    /\ call' = [op |-> "statsResponse", ok |-> ok, counters |-> dbCounter]
    /\ UNCHANGED <<notDb, now, dbDisplay, dbMarked, dbPollTimer, dbCounter, dbNotice, dbExporting>>

\* a sequence without its k-th element
Without(seq, k) == SubSeq(seq, 1, k - 1) \o SubSeq(seq, k + 1, Len(seq))

\* what a callback leaves of the intervals of an element
AnimateKept(timers, k, step) ==
    IF step.cleared THEN Without(timers, k) ELSE [timers EXCEPT ![k] = step.timer]

\* the callback `step` of the k-th interval of the element `id` has run
DbAnimateDone(id, k, step) ==
    /\ dbCounter' = [dbCounter EXCEPT ![id] = step.shown]
    /\ dbAnim' = [dbAnim EXCEPT ![id] = AnimateKept(@, k, step)]
    /\ call' = [op |-> "animateTick", id |-> id, cleared |-> step.cleared,
                target |-> step.timer.target]
    /\ UNCHANGED <<notDb, now, dbDisplay, dbMarked, dbPollTimer, dbStatsPending, dbNotice, dbExporting>>

\* a callback of the k-th animateNumber interval running on the element `id`
DbAnimateTick(id, k) ==
    /\ k \in 1..Len(dbAnim[id])
    /\ DbAnimateDone(id, k, AnimateStep(dbAnim[id][k]))

\* initRealTimeUpdates
DbInitRealTimeUpdates ==
    /\ ~dbPollTimer
    /\ dbPollTimer' = TRUE
    /\ call' = [op |-> "initRealTimeUpdates"]
    /\ UNCHANGED <<notDb, now, dbDisplay, dbMarked, dbStatsPending, dbCounter, dbAnim, dbNotice,
                   dbExporting>>

\* a callback of the interval of initRealTimeUpdates: loadDashboardStats up to
\* its fetch
DbPoll ==
    /\ dbPollTimer
    /\ dbStatsPending < MaxPending
    /\ dbStatsPending' = dbStatsPending + 1
    /\ call' = [op |-> "poll"]
    /\ UNCHANGED <<notDb, now, dbDisplay, dbMarked, dbPollTimer, dbCounter, dbAnim, dbNotice,
                   dbExporting>>

\* the most notifications on the page the model follows
MaxNotices == 1

\* showNotification: a new alert at the end of the document body
showNotification(notices, message, type) ==
    Append(notices, [message |-> message, type |-> type])

\* the 5-second timeout of showNotification for the oldest notification on
\* the page
DbNotificationTimeout ==
    /\ dbNotice # <<>>
    /\ dbNotice' = Tail(dbNotice)
    /\ call' = [op |-> "notificationTimeout"]
    /\ UNCHANGED <<notDb, now, dbDisplay, dbMarked, dbPollTimer, dbStatsPending, dbCounter,
                   dbAnim, dbExporting>>

\* exportData up to its fetch
DbExportData ==
    /\ dbExporting < MaxPending
    /\ dbExporting' = dbExporting + 1
    /\ call' = [op |-> "exportData"]
    /\ UNCHANGED <<notDb, now, dbDisplay, dbMarked, dbPollTimer, dbStatsPending, dbCounter,
                   dbAnim, dbNotice>>

\* exportData resumes: the response is ok and the file is downloaded, or it is
\* not ok or the fetch failed, and the catch shows a notification
DbExportAnswers(ok) ==
    /\ dbExporting > 0
    /\ ~ok => Len(dbNotice) < MaxNotices
    /\ dbExporting' = dbExporting - 1
    /\ dbNotice' = IF ok THEN dbNotice
                   ELSE showNotification(dbNotice, "Failed to export data", "danger")
    /\ call' = [op |-> "exportAnswers", ok |-> ok]
    /\ UNCHANGED <<notDb, now, dbDisplay, dbMarked, dbPollTimer, dbStatsPending, dbCounter,
                   dbAnim>>

(***************************************************************************)
(* SpecDashboard: the dashboard after new DashboardManager().              *)
(***************************************************************************)

Queries == {"", " ", "amv", "AMV", "pv", "(", "zz", "7", "(uv)", "(UV) assay"}

\* the stats a response carries
StatsResponses ==
    {[id \in StatIds |-> IF id = "total-docs" THEN 3 ELSE 0]}

InitDashboard ==
    /\ now = PageLoadTime
    /\ call = NoCall
    /\ AmvFresh
    /\ FuFresh
    /\ DcFresh
    /\ RestFresh

NextDashboard ==
    \/ \E q \in Queries : DbPerformSearch(q)
    \/ \E stats \in StatsResponses : DbStatsArrive(TRUE, stats)
    \/ \E stats \in StatsResponses : DbStatsArrive(FALSE, stats)
    \/ \E id \in StatIds, k \in 1..MaxIntervals : DbAnimateTick(id, k)
    \/ DbExportData
    \/ \E ok \in BOOLEAN : DbExportAnswers(ok)
    \/ DbNotificationTimeout

SpecDashboard == InitDashboard /\ [][NextDashboard]_vars

\* C11: after performSearch with a non-blank query exactly the rows whose text
\* holds the query, letter case aside, are shown; after a blank query all are
C11_SearchFiltersRows ==
    call.op = "performSearch" =>
        \A r \in SearchableRows :
            dbDisplay[r] = "none" <=>
                /\ Trim(call.query) # ""
                /\ ~Includes(ToLowerCase(SearchableTexts[r]), ToLowerCase(call.query))

\* C18: once the dashboard is initialised the 30-second poll of the stats runs
C18_PollingRuns == dbPollTimer

(***************************************************************************)
(* SpecStats: the counters of the dashboard under the 30-second poll of a  *)
(* page that calls initRealTimeUpdates.                                    *)
(***************************************************************************)

\* the stats the answers to the polls carry
PolledStats ==
    {[id \in StatIds |-> IF id = "total-docs" THEN n ELSE 0] : n \in {0, 3}}

InitStats == InitDashboard

NextStats ==
    \/ DbInitRealTimeUpdates
    \/ DbPoll
    \/ \E stats \in PolledStats : DbStatsArrive(TRUE, stats)
    \/ \E stats \in PolledStats : DbStatsArrive(FALSE, stats)
    \/ \E id \in StatIds, k \in 1..MaxIntervals : DbAnimateTick(id, k)

SpecStats == InitStats /\ [][NextStats]_vars

(***************************************************************************)
(* AuthManager: the login and the register form.                           *)
(***************************************************************************)

notAu == <<amvVars, fuVars, dcVars, dbVars, hiVars, edVars, exVars, moreVars>>

\* /[A-Z]/.test, /[a-z]/.test and /\d/.test
HasUpper(s) == \E i \in 1..Len(s) : \E k \in 1..26 : UpperCase[k] = CharAt(s, i)

HasLower(s) == \E i \in 1..Len(s) : \E k \in 1..26 : LowerCase[k] = CharAt(s, i)

HasNumber(s) == \E i \in 1..Len(s) : IsDigit(CharAt(s, i))

\* variant: seven characters are enough
validatePasswordSeven(password) ==
    IF password = "" \/ Len(password) < 7 THEN FALSE
    ELSE HasUpper(password) /\ HasLower(password) /\ HasNumber(password)

\* validatePassword
validatePassword(password) ==
    IF password = "" \/ Len(password) < 8 THEN FALSE
    ELSE HasUpper(password) /\ HasLower(password) /\ HasNumber(password)

\* the errors the provider and the backend raise: Firebase errors with a code,
\* and one without code or message
NoError == [code |-> "none", message |-> ""]

AuthErrors ==
    {[code |-> "auth/wrong-password", message |-> "Firebase: Error (auth/wrong-password)."],
     [code |-> "auth/email-already-in-use",
      message |-> "Firebase: Error (auth/email-already-in-use)."],
     [code |-> "auth/network-request-failed", message |-> "Network request failed"],
     [code |-> "", message |-> ""]}

\* getErrorMessage
getErrorMessage(error) ==
    CASE error.code = "auth/email-already-in-use" -> "Email address is already in use."
      [] error.code = "auth/weak-password" -> "Password is too weak."
      [] error.code = "auth/invalid-email" -> "Invalid email address."
      [] error.code = "auth/user-not-found" -> "No account found with this email address."
      [] error.code = "auth/wrong-password" -> "Incorrect password."
      [] error.code = "auth/too-many-requests" ->
             "Too many failed attempts. Please try again later."
      [] OTHER -> IF error.message # "" THEN error.message
                  ELSE "Authentication failed. Please try again."

\* showError, and showAuthError of the page script: both pages hold the error
\* division and #errorMessage
AuShowError(message) == [shown |-> TRUE, text |-> message]

\* hideError
AuHideError(error) == [error EXCEPT !.shown = FALSE]

\* setLoadingState
setLoadingState(button) == [disabled |-> TRUE, spinner |-> TRUE]

\* variant: the button is left as the loading state made it
resetKeepsLoading(button) == button

\* resetLoadingState: the label is the sign-in icon and the text
resetLoadingState(button) == [disabled |-> FALSE, spinner |-> FALSE]

\* the submit listener of bindLoginForm: handleLogin up to its first await
AuLogin ==
    /\ ~auButton["login"].disabled
    /\ ~auNav["login"]
    /\ auButton' = [auButton EXCEPT !["login"] = setLoadingState(@)]
    /\ auError' = [auError EXCEPT !["login"] = AuHideError(@)]
    /\ auPhase' = [auPhase EXCEPT !["login"] = "provider"]
    /\ call' = [op |-> "handleLogin", provider |-> TRUE]
    /\ UNCHANGED <<notAu, now, auNav>>

\* the submit listener of bindRegisterForm: handleRegister up to its first
\* await, with the password and the confirmation the form holds
AuRegister(password, confirmPassword) ==
    /\ ~auButton["register"].disabled
    /\ ~auNav["register"]
    /\ IF ~validatePassword(password)
       THEN /\ auError' = [auError EXCEPT !["register"] = AuShowError(
                   "Password must be at least 8 characters with uppercase, lowercase, and number.")]
            /\ UNCHANGED <<auButton, auPhase>>
       ELSE IF password # confirmPassword
       THEN /\ auError' = [auError EXCEPT !["register"] =
                               AuShowError("Passwords do not match.")]
            /\ UNCHANGED <<auButton, auPhase>>
       ELSE /\ auButton' = [auButton EXCEPT !["register"] = setLoadingState(@)]
            /\ auError' = [auError EXCEPT !["register"] = AuHideError(@)]
            /\ auPhase' = [auPhase EXCEPT !["register"] = "provider"]
    /\ call' = [op |-> "handleRegister", password |-> password,
                confirmPassword |-> confirmPassword,
                provider |-> validatePassword(password) /\ password = confirmPassword,
                before |-> auButton["register"]]
    /\ UNCHANGED <<notAu, now, auNav>>

\* the catch and the finally of handleLogin and handleRegister
AuFails(f, error) ==
    /\ auError' = [auError EXCEPT ![f] = AuShowError(getErrorMessage(error))]
    /\ auButton' = [auButton EXCEPT ![f] = resetLoadingState(@)]
    /\ auPhase' = [auPhase EXCEPT ![f] = "idle"]
    /\ UNCHANGED auNav

\* signInWithEmailAndPassword or createUserWithEmailAndPassword settles
AuProviderAnswers(f, error) ==
    /\ auPhase[f] = "provider"
    /\ IF error # NoError
       THEN AuFails(f, error)
       ELSE /\ auPhase' = [auPhase EXCEPT ![f] = IF f = "register" THEN "profile"
                                                 ELSE "verify"]
            /\ UNCHANGED <<auButton, auError, auNav>>
    /\ call' = [op |-> "providerAnswers", form |-> f, failed |-> error # NoError]
    /\ UNCHANGED <<notAu, now>>

\* updateProfile settles
AuProfileAnswers(error) ==
    /\ auPhase["register"] = "profile"
    /\ IF error # NoError
       THEN AuFails("register", error)
       ELSE /\ auPhase' = [auPhase EXCEPT !["register"] = "verify"]
            /\ UNCHANGED <<auButton, auError, auNav>>
    /\ call' = [op |-> "profileAnswers", form |-> "register", failed |-> error # NoError]
    /\ UNCHANGED <<notAu, now>>

\* handleAuthSuccess settles, and the finally of the handler runs: the token
\* or /auth/verify failed with an error, or the backend said success
AuVerifySettles(f, error) ==
    /\ auPhase[f] = "verify"
    /\ IF error # NoError
       THEN /\ auError' = [auError EXCEPT ![f] = AuShowError(error.message)]
            /\ UNCHANGED auNav
       ELSE /\ auNav' = [auNav EXCEPT ![f] = TRUE]
            /\ UNCHANGED auError
    /\ auButton' = [auButton EXCEPT ![f] = resetLoadingState(@)]
    /\ auPhase' = [auPhase EXCEPT ![f] = "idle"]
    /\ UNCHANGED <<notAu, now>>

AuVerifyAnswers(f, error) ==
    /\ AuVerifySettles(f, error)
    /\ call' = [op |-> "verifyAnswers", form |-> f, failed |-> error # NoError]

(***************************************************************************)
(* history.js: the delete modal of the document list.                      *)
(***************************************************************************)

notHi == <<amvVars, fuVars, dcVars, dbVars, auVars, edVars, exVars, moreVars>>

\* deleteDocument, of the delete button of a listed document
HiDeleteDocument(documentId) ==
    /\ documentId \in hiDocs
    /\ hiToDelete' = documentId
    /\ hiModalHidden' = FALSE
    /\ call' = [op |-> "deleteDocument", documentId |-> documentId]
    /\ UNCHANGED <<notHi, now, hiDocs, hiButton, hiPending, hiAlert>>

\* closeDeleteModal, of the cancel button of the modal
HiCloseDeleteModal ==
    /\ ~hiModalHidden
    /\ hiToDelete' = 0
    /\ hiModalHidden' = TRUE
    /\ call' = [op |-> "closeDeleteModal"]
    /\ UNCHANGED <<notHi, now, hiDocs, hiButton, hiPending, hiAlert>>

\* variant: the finally block leaves the button alone
HiFinallyButtonKept(button) == button

\* the button after the finally block of the click listener
HiFinallyButton(button) == [disabled |-> FALSE, spinner |-> FALSE]

\* the click listener of #confirmDeleteBtn up to its fetch
HiConfirmClick ==
    /\ ~hiModalHidden
    /\ ~hiButton.disabled
    /\ IF hiToDelete = 0
       THEN UNCHANGED <<hiButton, hiPending>>
       ELSE /\ hiButton' = [disabled |-> TRUE, spinner |-> TRUE]
            /\ hiPending' = hiPending \cup {hiToDelete}
    /\ call' = [op |-> "confirmDelete", sent |-> hiToDelete # 0]
    /\ UNCHANGED <<notHi, now, hiDocs, hiToDelete, hiModalHidden, hiAlert>>

\* "Error: " + (result.error || "Failed to delete document")
DeleteErrorMessage(error) ==
    "Error: " \o (IF error # "" THEN error ELSE "Failed to delete document")

\* the click listener resumes: the backend answered success, or it did not and
\* its answer carries the text `error` ("" for none), or the fetch or
\* response.json() failed; location.reload brings the page back without the
\* document
HiDeleteResponse(documentId, outcome, error) ==
    /\ documentId \in hiPending
    /\ hiPending' = hiPending \ {documentId}
    /\ hiAlert' = CASE outcome = "success" -> hiAlert
                    [] outcome = "failure" -> DeleteErrorMessage(error)
                    [] OTHER -> "Failed to delete document"
    /\ hiDocs' = IF outcome = "success" THEN hiDocs \ {documentId} ELSE hiDocs
    /\ hiButton' = HiFinallyButton(hiButton)
    /\ hiModalHidden' = TRUE
    /\ hiToDelete' = 0
    /\ call' = [op |-> "deleteResponse", documentId |-> documentId, outcome |-> outcome]
    /\ UNCHANGED <<notHi, now>>

(***************************************************************************)
(* SpecFlows: the four submission flows, one page open at a time.          *)
(***************************************************************************)

\* the passwords and confirmations typed into the register form
Passwords == {"", "Abcdef1", "Abcdefg1", "abcdefg1", "ABCDEFG1", "Abcdefgh", "Abcdefg2"}

DeleteOutcomes == {"success", "failure", "exception"}

\* the error texts an answer of the delete endpoint carries
DeleteErrors == {"", "Document not found"}

\* a page as it was loaded
DcAsLoaded ==
    /\ dcText = DcBlankText
    /\ fuFiles = [i \in FileInputs |-> NoFile]
    /\ fuBanner = ""
    /\ fuProgress = -1
    /\ dcInFlight = 0
    /\ dcParsing = 0
    /\ dcNav = "none"

AuAsLoaded(f) ==
    /\ auButton[f] = IdleButton
    /\ auPhase[f] = "idle"
    /\ ~auError[f].shown
    /\ ~auNav[f]

HiAsLoaded == HiFresh

InitFlows == InitSubmit

\* the browser shows one page: a page is acted on while the others are as loaded
OnCreatePage == AuAsLoaded("login") /\ AuAsLoaded("register") /\ HiAsLoaded

OnLoginPage == DcAsLoaded /\ AuAsLoaded("register") /\ HiAsLoaded

OnRegisterPage == DcAsLoaded /\ AuAsLoaded("login") /\ HiAsLoaded

OnHistoryPage == DcAsLoaded /\ AuAsLoaded("login") /\ AuAsLoaded("register")

NextFlows ==
    \/ OnCreatePage /\ DcInput("title", "T")
    \/ OnCreatePage /\ DcCompanyChange("1")
    \/ OnCreatePage /\ DcNumberArrives(TRUE, "DOC-1")
    \/ OnCreatePage /\ UserSelectFile("stp_file", GoodDoc)
    \/ OnCreatePage /\ DcSubmit
    \/ OnCreatePage /\ DcResponseArrives
    \/ OnCreatePage /\ \E result \in CreateResults : DcCreateResponse(result)
    \/ OnCreatePage /\ \E parsing \in BOOLEAN, message \in EngineMessages :
                           DcCreateRejects(parsing, message)
    \/ OnLoginPage /\ AuLogin
    \/ OnLoginPage /\ \E error \in AuthErrors \cup {NoError} : AuProviderAnswers("login", error)
    \/ OnLoginPage /\ \E error \in AuthErrors \cup {NoError} : AuVerifyAnswers("login", error)
    \/ OnRegisterPage /\ \E password, confirmPassword \in Passwords :
                             AuRegister(password, confirmPassword)
    \/ OnRegisterPage /\ \E error \in AuthErrors \cup {NoError} :
                             AuProviderAnswers("register", error)
    \/ OnRegisterPage /\ \E error \in AuthErrors \cup {NoError} : AuProfileAnswers(error)
    \/ OnRegisterPage /\ \E error \in AuthErrors \cup {NoError} :
                             AuVerifyAnswers("register", error)
    \/ OnHistoryPage /\ \E id \in 1..MaxDocs : HiDeleteDocument(id)
    \/ OnHistoryPage /\ HiCloseDeleteModal
    \/ OnHistoryPage /\ HiConfirmClick
    \/ OnHistoryPage /\ \E id \in 1..MaxDocs, outcome \in DeleteOutcomes,
                            error \in DeleteErrors :
                            HiDeleteResponse(id, outcome, error)

SpecFlows == InitFlows /\ [][NextFlows]_vars

\* C12: when a submission flow has finished on a failure path (validation
\* failure, exception, success:false) in document creation, login, registration
\* or list delete, the submit control is enabled and the loading indicator is
\* cleared
C12_FailureLeavesInteractive ==
    /\ (call.op = "handleFormSubmission" /\ ~call.sent) =>
           ~dcDisabled /\ fuProgress = -1
    /\ (call.op = "createResponse" /\ ~call.success) =>
           ~dcDisabled /\ fuProgress = -1
    /\ call.op = "createRejects" =>
           ~dcDisabled /\ fuProgress = -1
    /\ (call.op = "handleRegister" /\ ~call.provider) =>
           auButton["register"] = IdleButton
    /\ (call.op \in {"providerAnswers", "profileAnswers", "verifyAnswers"} /\ call.failed) =>
           auButton[call.form] = IdleButton /\ auPhase[call.form] = "idle"
    /\ (call.op = "deleteResponse" /\ call.outcome # "success") =>
           hiButton = IdleButton /\ hiPending = {}

\* C12 witnesses: each flow has finished on a failure path
C12_Witness ==
    /\ call.op = "deleteResponse"
    /\ call.outcome = "exception"
    /\ hiButton = IdleButton

C12_WitnessCreate ==
    /\ call.op = "createResponse"
    /\ ~call.success
    /\ hasFileManager
    /\ ~dcDisabled

C12_WitnessLogin ==
    /\ call.op = "verifyAnswers"
    /\ call.form = "login"
    /\ call.failed
    /\ auError["login"].shown

C12_WitnessRegister ==
    /\ call.op = "profileAnswers"
    /\ call.failed
    /\ auError["register"].shown

\* the character classes of the password rule
UpperLetters == {UpperCase[k] : k \in 1..26}

LowerLetters == {LowerCase[k] : k \in 1..26}

DigitChars == {Digits[k] : k \in 1..10}

\* C17: a registration attempt calls the identity provider only if the password
\* has at least 8 characters with an upper-case letter, a lower-case letter and
\* a digit and equals the confirmation; otherwise an error is shown, the
\* provider is not called and the loading state is not entered
C17_ProviderOnlyForValidPassword ==
    call.op = "handleRegister" =>
        LET p     == call.password
            chars == {CharAt(p, i) : i \in 1..Len(p)}
            valid == /\ Len(p) >= 8
                     /\ chars \cap UpperLetters # {}
                     /\ chars \cap LowerLetters # {}
                     /\ chars \cap DigitChars # {}
                     /\ p = call.confirmPassword
        IN  /\ call.provider <=> valid
            /\ valid => /\ auPhase["register"] = "provider"
                        /\ auButton["register"].disabled
            /\ ~valid => /\ auPhase["register"] = "idle"
                         /\ auError["register"].shown
                         /\ auButton["register"] = IdleButton

\* C17 witness: a password of the right form met another confirmation
C17_Witness ==
    /\ call.op = "handleRegister"
    /\ call.password = "Abcdefg1"
    /\ call.confirmPassword = "Abcdefg2"
    /\ auError["register"].text = "Passwords do not match."

\* C17 witness: a password of seven characters, confirmed, was turned down
C17_WitnessShort ==
    /\ call.op = "handleRegister"
    /\ call.password = "Abcdef1"
    /\ call.confirmPassword = "Abcdef1"
    /\ auError["register"].shown
    /\ auPhase["register"] = "idle"

(***************************************************************************)
(* SpecDraft: the writers of documentDraft on the Document Creation page.  *)
(***************************************************************************)

\* window.saveAsDraft: updateFormData, autoSaveDraft and a notification, which
\* needs the dashboardManager this page does not have
DcSaveAsDraft ==
    /\ dcNav # "navigated"
    /\ draft' = autoSaveDraft(draft, now, dcText, dcType,
                              CheckedValue(dcChecked, dcFirstRadio), dcRendered, dcParam,
                              UploadedFiles(hasFileManager, fuFiles))
    /\ call' = [op |-> "saveAsDraft", saved |-> hasFormData(dcText)]
    /\ UNCHANGED <<notDc, fuVars, now, dcType, dcChecked, dcFirstRadio, dcRendered, dcText,
                   dcParam, dcTemplate, dcRequired, dcLoadTimer, dcRestore, dcNumPending,
                   dcRequest, dcInFlight, dcParsing, dcDisabled, dcNav, hasFileManager>>

\* the user leaves the page: the beforeunload listener of bindDraftSaving
DcBeforeUnload ==
    /\ dcNav = "none"
    /\ dcNav' = "navigated"
    /\ draft' = autoSaveDraft(draft, now, dcText, dcType,
                              CheckedValue(dcChecked, dcFirstRadio), dcRendered, dcParam,
                              UploadedFiles(hasFileManager, fuFiles))
    /\ call' = [op |-> "beforeunload", saved |-> hasFormData(dcText)]
    /\ UNCHANGED <<notDc, fuVars, now, dcType, dcChecked, dcFirstRadio, dcRendered, dcText,
                   dcParam, dcTemplate, dcRequired, dcLoadTimer, dcRestore, dcNumPending,
                   dcRequest, dcInFlight, dcParsing, dcDisabled, hasFileManager>>

InitDraft == InitSubmit

NextDraft ==
    \/ \E v \in {"T", ""} : DcInput("title", v)
    \/ \E v \in {"1", ""} : DcCompanyChange(v)
    \/ DcNumberArrives(TRUE, "DOC-1")
    \/ DcSubmit
    \/ DcResponseArrives
    \/ DcCreateResponse([success |-> TRUE])
    \/ DcNavigate
    \/ DcAutoSaveTimer
    \/ DcSaveAsDraft
    \/ DcBeforeUnload
    \/ Tick

SpecDraft == InitDraft /\ [][NextDraft]_vars

\* the handlers that call autoSaveDraft
DraftWriters == {"autoSaveDraft", "saveAsDraft", "beforeunload", "navigate"}

\* C16: documentDraft is written only by the 30-second timer, the beforeunload
\* listener and saveAsDraft, and only while the title or the company id is not
\* empty; with both empty these handlers leave the stored item as it is
C16_NoEmptyDraftWritten ==
    [][LET empty == dcText["title"] = "" /\ dcText["company_id"] = ""
       IN  /\ (draft' # draft /\ draft'.present) =>
                  /\ call'.op \in DraftWriters
                  /\ ~empty
                  /\ draft'.formData["title"] # "" \/ draft'.formData["company_id"] # ""
           /\ (call'.op \in DraftWriters /\ empty) => draft' = draft]_vars

\* C16 witness: saveAsDraft ran on an emptied form and the draft of an earlier
\* moment is still the stored one
C16_Witness ==
    /\ call.op = "saveAsDraft"
    /\ dcText["title"] = ""
    /\ dcText["company_id"] = ""
    /\ draft.present
    /\ draft.timestamp < now

(***************************************************************************)
(* SpecMalformed: both pages are loaded with any item in storage, items    *)
(* the pages did not write included.                                       *)
(***************************************************************************)

\* a stored text that is not JSON
NotJson == [present |-> TRUE, json |-> "{oops"]

\* the stored text {}
EmptyObject == [present |-> TRUE]

\* the stored text {"timestamp":0}
OnlyTimestamp == [present |-> TRUE, timestamp |-> 0]

InitMalformed ==
    /\ now = PageLoadTime
    /\ call = NoCall
    /\ amvText = AmvBlankText
    /\ amvAttr = AmvDeclaredAttr
    /\ amvChecked = {}
    /\ currentInstrument = ""
    /\ amvSection = ""
    /\ amvRequired = {}
    /\ amvFieldError = AmvNoErrors
    /\ amvSaved \in {NoItem, NotJson, EmptyObject, OnlyTimestamp}
                    \cup {AmvStored(t) : t \in StoredTimestamps}
    /\ amvPending = 0
    /\ amvPc = "constructing"
    /\ FuFresh
    /\ draft \in {NoItem, NotJson, EmptyObject, OnlyTimestamp}
                 \cup {StabilityDraft(t) : t \in StoredTimestamps}
    /\ dcType = "AMV"
    /\ dcChecked = 1
    /\ dcFirstRadio = "AMV"
    /\ dcRendered = "AMV"
    /\ dcText = DcBlankText
    /\ dcParam = DcBlankParams
    /\ dcTemplate = DcBlankParams
    /\ dcRequired = {}
    /\ dcLoadTimer = TRUE
    /\ dcRestore = NoItem
    /\ dcNumPending = 0
    /\ dcRequest = NoItem
    /\ dcInFlight = 0
    /\ dcParsing = 0
    /\ dcDisabled = FALSE
    /\ dcNav = "none"
    /\ hasFileManager = TRUE
    /\ RestFresh

NextMalformed ==
    \/ AmvLoadSavedData
    \/ \E answer \in BOOLEAN : DcLoadDraft(answer)
    \/ DcRestoreTimer

SpecMalformed == InitMalformed /\ [][NextMalformed]_vars

\* C15: after the load attempt on a stored item that does not parse or lacks
\* the expected shape, the item is no longer in storage and the form is fresh,
\* for documentDraft and for amvFormData
C15_MalformedDiscarded ==
    /\ (call.op = "loadDraft" /\ call.item.present
           /\ ~({"timestamp", "documentType", "formData"} \subseteq DOMAIN call.item)) =>
           /\ ~draft.present
           /\ dcText = DcBlankText /\ dcParam = DcBlankParams
    /\ (call.op = "loadSavedData" /\ call.item.present
           /\ ~({"timestamp", "data", "instrument"} \subseteq DOMAIN call.item)) =>
           /\ ~amvSaved.present
           /\ amvText = AmvBlankText /\ amvChecked = {}

(***************************************************************************)
(* SpecEdit: the Document Creation page opened with edit=<id>.             *)
(***************************************************************************)

\* the records GET /documents/<id> answers with; metadata is the parsed JSON
\* text of the record's metadata
EditRecords ==
    {[document_type |-> "Stability", title |-> "Stab 1", company_id |-> "1",
      document_number |-> "DOC-1", product_name |-> "P",
      metadata |-> [n \in {"study_type", "storage_conditions"} |->
                       IF n = "study_type" THEN "long" ELSE "25C"]],
     [document_type |-> "PV", title |-> "PV 2", company_id |-> "2",
      document_number |-> "DOC-2", product_name |-> "",
      metadata |-> [n \in {"process_name"} |-> "mixing"]],
     [document_type |-> "AMV", title |-> "Assay", company_id |-> "1",
      document_number |-> "", product_name |-> "Q",
      metadata |-> [n \in {"active_ingredient"} |-> "A"]]}

\* inside populateFormWithDocument the name `document` is the parameter, the
\* record parsed from the response, in the timer callback too: a call of
\* document.getElementById or document.querySelector throws a TypeError unless
\* the record holds a function of that name, which a JSON value never does
RecordCalls(record, method) == method \in DOMAIN record

\* the timer callback of populateFormWithDocument on the basic fields: the
\* first entry of `fields` calls document.getElementById
PopulatedText(text, record) ==
    IF ~RecordCalls(record, "getElementById") THEN text
    ELSE [k \in BasicFields |-> IF record[k] # "" THEN record[k] ELSE text[k]]

\* the timer callback of populateFormWithDocument on the metadata: reached if
\* the basic fields did not throw; its own throw is caught
PopulatedParams(param, rendered, record) ==
    IF ~RecordCalls(record, "getElementById") \/ ~RecordCalls(record, "querySelector")
    THEN param
    ELSE [n \in ParamNames |->
             IF n \in DOMAIN record.metadata /\ n \in TemplateFields(rendered)
                /\ record.metadata[n] # ""
             THEN record.metadata[n] ELSE param[n]]

\* loadDocumentForEditing resumes: the response arrived, ok or not, and
\* populateFormWithDocument selected the type and set its 200 ms timer
DcEditFetched(ok, record) ==
    /\ dcEdit.phase = "fetching"
    /\ dcNav # "navigated"
    /\ IF ok
       THEN /\ selectDocumentType(record.document_type)
            /\ dcEdit' = [phase |-> "timer", record |-> record]
       ELSE /\ dcEdit' = [phase |-> "done"]
            /\ UNCHANGED <<dcChecked, dcType, dcRendered, dcParam, dcRequired>>
    /\ call' = [op |-> "loadDocumentForEditing", ok |-> ok, record |-> record]
    /\ UNCHANGED <<amvVars, fuVars, dbVars, auVars, hiVars, exVars, moreVars, now, draft, dcFirstRadio, dcText,
                   dcTemplate, dcLoadTimer, dcRestore, dcNumPending, dcRequest, dcInFlight, dcParsing,
                   dcDisabled, dcNav, hasFileManager>>

\* the 200 ms timer of populateFormWithDocument fires
DcEditTimer ==
    /\ dcEdit.phase = "timer"
    /\ dcNav # "navigated"
    /\ dcText' = PopulatedText(dcText, dcEdit.record)
    /\ dcParam' = PopulatedParams(dcParam, dcRendered, dcEdit.record)
    /\ dcEdit' = [phase |-> "done"]
    /\ call' = [op |-> "populateTimer", record |-> dcEdit.record,
                thrown |-> ~RecordCalls(dcEdit.record, "getElementById")]
    /\ UNCHANGED <<amvVars, fuVars, dbVars, auVars, hiVars, exVars, moreVars, now, draft, dcType, dcChecked,
                   dcFirstRadio, dcRendered, dcTemplate, dcRequired, dcLoadTimer, dcRestore,
                   dcNumPending, dcRequest, dcInFlight, dcParsing, dcDisabled, dcNav, hasFileManager>>

\* the page after the constructor: handleUrlParameters found edit=<id> and the
\* request of loadDocumentForEditing is in flight
InitEdit ==
    /\ now = PageLoadTime
    /\ call = NoCall
    /\ AmvFresh
    /\ FuFresh
    /\ draft = NoItem
    /\ dcType = "AMV"
    /\ dcChecked = 1
    /\ dcFirstRadio = "AMV"
    /\ dcRendered = "AMV"
    /\ dcText = DcBlankText
    /\ dcParam = DcBlankParams
    /\ dcTemplate = DcBlankParams
    /\ dcRequired = {}
    /\ dcLoadTimer = FALSE
    /\ dcRestore = NoItem
    /\ dcNumPending = 0
    /\ dcRequest = NoItem
    /\ dcInFlight = 0
    /\ dcParsing = 0
    /\ dcDisabled = FALSE
    /\ dcNav = "none"
    /\ hasFileManager = TRUE
    /\ DbFresh
    /\ AuFresh
    /\ HiFresh
    /\ ExFresh
    /\ MoreFresh
    /\ dcEdit = [phase |-> "fetching"]

NextEdit ==
    \/ \E record \in EditRecords : DcEditFetched(TRUE, record)
    \/ \E record \in EditRecords : DcEditFetched(FALSE, record)
    \/ DcEditTimer
    \/ \E r \in PickedRadios : DcRadioChange(r)
    \/ \E v \in {"U", ""} : DcInput("product_name", v)
    \/ Tick

SpecEdit == InitEdit /\ [][NextEdit]_vars

\* C14: with edit=<id> and a successful fetch the form is repopulated from the
\* record (title, company, document number, product name, and the fields of the
\* record's metadata), after the template of the record's type was injected
C14_EditRepopulatesForm ==
    call.op = "populateTimer" =>
        /\ \A k \in BasicFields : call.record[k] # "" => dcText[k] = call.record[k]
        /\ dcRendered = call.record.document_type =>
               \A n \in DOMAIN call.record.metadata : dcParam[n] = call.record.metadata[n]

(***************************************************************************)
(* SpecRequired: validateInstrumentParameters on the AMV form.             *)
(***************************************************************************)

\* validateInstrumentParameters: the fields it reports, each with the kind of
\* its message ("invalid" for a wavelength, "required" for the others), for
\* the section on display and the values of the form; a field of a section not
\* on display has offsetParent null
InstrumentFieldsChecked(instrumentType, section) ==
    IF instrumentType \notin AmvSections \/ section # instrumentType THEN {}
    ELSE getRequiredFieldsForInstrument(instrumentType) \cap AmvSectionFields[instrumentType]

validateInstrumentParameters(instrumentType, section, text, attr) ==
    LET shown == InstrumentFieldsChecked(instrumentType, section)
    IN  {[field |-> f, kind |-> "invalid"] :
             f \in {g \in shown : /\ Includes(g, "wavelength")
                                  /\ ~validateWavelengthField(text[g], attr[g].min,
                                                              attr[g].max).ok}}
        \cup
        {[field |-> f, kind |-> "required"] :
             f \in {g \in shown : ~Includes(g, "wavelength") /\ Trim(text[g]) = ""}}

\* the messages under the fields after validateInstrumentParameters
InstrumentFieldErrors(errors, shown, text, attr) ==
    [n \in DOMAIN errors |->
        IF n \notin shown THEN errors[n]
        ELSE IF Includes(n, "wavelength")
        THEN WavelengthMessage(errors[n],
                 validateWavelengthField(text[n], attr[n].min, attr[n].max))
        ELSE IF Trim(text[n]) = "" THEN "This field is required"
        ELSE errors[n]]

\* getAllowedFileTypes
getAllowedFileTypes(fieldName) ==
    CASE fieldName = "stp_file" -> <<".doc", ".docx">>
      [] fieldName = "method_analysis_file" -> <<".pdf">>
      [] fieldName = "raw_data_file" -> <<".csv", ".xls", ".xlsx">>
      [] OTHER -> <<>>

\* isAllowedExtension
isAllowedExtension(filename, allowed) == FileExtension(filename) \in Range(allowed)

\* handleFileUpload: the message it shows for a file it refuses, "" for a file
\* it takes
UploadRefusal(fieldName, file) ==
    IF /\ file.type \notin Range(getAllowedFileTypes(fieldName))
       /\ ~isAllowedExtension(file.name, getAllowedFileTypes(fieldName))
    THEN "Invalid file type"
    ELSE IF file.size > 10 * 1024 * 1024 THEN "File size must be less than 10MB"
    ELSE ""

\* handleFileUpload: the messages under the fields after it
handleFileUpload(errors, fieldName, file) ==
    IF UploadRefusal(fieldName, file) # ""
    THEN ShowFieldError(errors, fieldName, UploadRefusal(fieldName, file))
    ELSE ClearFieldError(errors, fieldName)

\* handleFileUpload: the file the input holds after it; a refused file is taken
\* out of the input
HeldFile(fieldName, file) ==
    IF UploadRefusal(fieldName, file) # "" THEN NoMethodFile ELSE file

\* the files the user browses to for the method file input
MethodFiles ==
    {[name |-> "method.pdf", size |-> 2048, type |-> "application/pdf"],
     [name |-> "notes.txt", size |-> 2048, type |-> "text/plain"],
     [name |-> "scan.PDF", size |-> 10 * 1024 * 1024 + 1, type |-> ""]}

\* a file is dropped on the upload area of the method file input: the drop
\* listener of bindFileUploads puts it in the input and calls handleFileUpload,
\* which saves the form when it takes the file; no input event and no change
\* event is fired, so nothing is extracted
AmvMethodFileDropped(file) ==
    /\ amvPc = "ready"
    /\ amvFieldError' = handleFileUpload(amvFieldError, "method_analysis_file", file)
    /\ amvFile' = HeldFile("method_analysis_file", file)
    /\ amvSaved' = IF UploadRefusal("method_analysis_file", file) # "" THEN amvSaved
                   ELSE SavedItem(amvText, amvChecked, currentInstrument, now)
    /\ call' = [op |-> "methodFileDrop", file |-> file,
                refused |-> UploadRefusal("method_analysis_file", file) # ""]
    /\ UNCHANGED <<fuVars, dcVars, dbVars, auVars, hiVars, edVars, seVars, chVars, snVars,
                   lgVars, now, amvText, amvAttr, amvChecked, currentInstrument, amvSection,
                   amvRequired, amvPending, amvPc, amvExtracting>>

\* validateForm: the text fields it requires
RequiredTextFields == {"document_title", "product_name", "label_claim", "active_ingredient"}

\* validateForm: the checkbox groups of which one box at least must be checked
RequiredGroups == {"val_params", "parameters_to_validate"}

\* validateForm: what it pushes to `errors` before the instrument-specific
\* part, each by the field or the group it is about
FormRequiredErrors(text, checked, file) ==
    {[field |-> n, kind |-> "required"] :
         n \in {m \in RequiredTextFields : Trim(text[m]) = ""}}
    \cup (IF \E b \in checked : b[1] = "instrument_type" THEN {}
          ELSE {[field |-> "instrument_type", kind |-> "select"]})
    \cup {[field |-> g, kind |-> "select"] :
              g \in {h \in RequiredGroups : ~\E b \in checked : b[1] = h}}
    \cup (IF file # NoMethodFile THEN {}
          ELSE {[field |-> "method_analysis_file", kind |-> "required"]})

\* validateForm: the messages under the fields after it
FormFieldErrors(errors, text, file, instrument, section, attr) ==
    InstrumentFieldErrors(
        [n \in DOMAIN errors |->
            IF n \in RequiredTextFields /\ Trim(text[n]) = "" THEN "This field is required"
            ELSE IF n = "method_analysis_file" /\ file = NoMethodFile
            THEN "This file is required"
            ELSE errors[n]],
        IF instrument = "" THEN {} ELSE InstrumentFieldsChecked(instrument, section),
        text, attr)

\* the submit listener of bindFormValidation, given what validateForm pushed to
\* `errors`: with no error the listener calls showLoadingState and the form is
\* sent
AmvSubmitted(instrument, reported, errors) ==
    /\ amvPc = "ready"
    /\ amvFieldError' = FormFieldErrors(amvFieldError, amvText, amvFile, instrument,
                                        amvSection, amvAttr)
    /\ amvPc' = IF errors = {} THEN "submitting" ELSE amvPc
    /\ call' = [op |-> "validateForm", instrument |-> instrument,
                reported |-> reported, errors |-> errors, valid |-> errors = {}]
    /\ UNCHANGED <<notAmv, now, amvText, amvAttr, amvChecked, currentInstrument, amvSection,
                   amvRequired, amvSaved, amvPending>>

\* validateForm, given the checked radio and what validateInstrumentParameters
\* returned for it
AmvValidated(instrument, reported) ==
    AmvSubmitted(instrument, reported,
                 FormRequiredErrors(amvText, amvChecked, amvFile) \cup reported)

\* a submit event of #amvForm: validateForm shows a message under each required
\* text field left empty and under the method file input holding no file, and
\* calls validateInstrumentParameters with the checked radio, if any
AmvSubmit ==
    AmvValidated(CheckedInstrument(amvChecked),
                 IF CheckedInstrument(amvChecked) = "" THEN {}
                 ELSE validateInstrumentParameters(CheckedInstrument(amvChecked),
                                                   amvSection, amvText, amvAttr))

\* the fields the user fills, and what is typed
RequiredInputs ==
    {<<"uv_wavelength", "254">>, <<"hplc_wavelength", "100">>, <<"hplc_flow_rate", "1">>,
     <<"hplc_flow_rate", " ">>}

\* the file dropped on the method file input
DroppedFiles == {file \in MethodFiles : file.name = "method.pdf"}

\* the form an earlier visit saved: the four required texts typed and a box of
\* parameters_to_validate checked, no instrument picked yet
FilledStored ==
    SavedItem([n \in AmvTextNames |-> IF n \in RequiredTextFields THEN "T" ELSE ""],
              {<<"parameters_to_validate", "assay">>}, "", PageLoadTime - 1)

\* the AMV page before loadSavedData, with nothing stored or that form
InitRequired ==
    /\ now = PageLoadTime
    /\ call = NoCall
    /\ amvText = AmvBlankText
    /\ amvAttr = AmvDeclaredAttr
    /\ amvChecked = {}
    /\ currentInstrument = ""
    /\ amvSection = ""
    /\ amvRequired = {}
    /\ amvFieldError = AmvNoErrors
    /\ amvSaved \in {NoItem, FilledStored}
    /\ amvPending = 0
    /\ amvPc = "constructing"
    /\ FuFresh
    /\ DcFresh
    /\ RestFresh

NextRequired ==
    \/ AmvLoadSavedData
    \/ \E t \in InstrumentTypes : AmvSelectInstrument(t)
    \/ \E i \in RequiredInputs : AmvInput(i[1], i[2])
    \/ \E file \in DroppedFiles : AmvMethodFileDropped(file)
    \/ AmvSubmit

SpecRequired == InitRequired /\ [][NextRequired]_vars

\* the required-field set of each instrument
RequiredSet ==
    [uv |-> {"uv_wavelength"}, aas |-> {"uv_wavelength"},
     hplc |-> {"hplc_wavelength", "hplc_flow_rate"},
     gc |-> {"hplc_wavelength", "hplc_flow_rate"},
     titration |-> {"titration_reference_volume"}]

\* C20: validateForm rejects the form whenever a field of the selected
\* instrument's required-field set that is in the section on display is empty,
\* the wavelength fields included, and its instrument-specific part reports no
\* field outside that section as required
C20_RequiredOnVisibleFields ==
    (call.op = "validateForm" /\ call.instrument # "") =>
        LET visible == IF amvSection = "" THEN {} ELSE AmvSectionFields[amvSection]
            set     == IF call.instrument \in DOMAIN RequiredSet
                       THEN RequiredSet[call.instrument] ELSE {}
        IN  /\ (\E f \in set \cap visible : Trim(amvText[f]) = "") => ~call.valid
            /\ \A e \in call.reported : e.kind = "required" => e.field \in visible

(***************************************************************************)
(* SpecExtract: the extraction of method parameters from an uploaded PDF.  *)
(***************************************************************************)

\* getFieldMapping: the field of each key, "" for a key the table lacks
getFieldMapping(instrument, key) ==
    CASE key = "wavelength" -> IF instrument = "hplc" THEN "hplc_wavelength" ELSE "uv_wavelength"
      [] key = "flow_rate" -> "hplc_flow_rate"
      [] key = "injection_volume" -> "hplc_injection_volume"
      [] key = "weight_standard" ->
             IF instrument = "hplc" THEN "hplc_weight_standard" ELSE "uv_weight_standard"
      [] key = "weight_sample" ->
             IF instrument = "hplc" THEN "hplc_weight_sample" ELSE "uv_weight_sample"
      [] key = "concentration" ->
             IF instrument = "hplc" THEN "hplc_final_concentration_standard"
             ELSE "uv_final_concentration_standard"
      [] OTHER -> ""

\* populateExtractedParameters: whether a field holding `value` is written
ExtractedWrites(value) == value = ""

\* populateExtractedParameters: the text fields after it; a value is a number
\* or a string, given by the text the field shows for it, or something else
populateExtractedParameters(text, instrument, parameters) ==
    LET usable == {k \in DOMAIN parameters : parameters[k].type \in {"number", "string"}}
        KeysOf(n) == {k \in usable : getFieldMapping(instrument, k) = n}
    IN  [n \in AmvTextNames |->
            IF KeysOf(n) # {} /\ ExtractedWrites(text[n])
            THEN parameters[CHOOSE k \in KeysOf(n) : TRUE].text
            ELSE text[n]]

\* extractMethodParameters: the instrument_type of its request
SentInstrument(instrument) == IF instrument = "" THEN "hplc" ELSE instrument

\* the user browsed to `file` for the method file input: an input event and a
\* change event.  The input listener of bindFormValidation clears the message
\* under the input and saves the form.  The change listener of
\* bindFileUploads runs next (handleFileUpload), and then the one of
\* bindDilutionCalculations: with a file left in the input,
\* extractMethodParameters up to its fetch
AmvMethodFileChosen(file) ==
    LET refusal == UploadRefusal("method_analysis_file", file)
    IN  /\ amvPc = "ready"
        /\ refusal = "" => amvExtracting < MaxPending
        /\ amvFieldError' = handleFileUpload(
                                ClearFieldError(amvFieldError, "method_analysis_file"),
                                "method_analysis_file", file)
        /\ amvSaved' = SavedItem(amvText, amvChecked, currentInstrument, now)
        /\ amvFile' = HeldFile("method_analysis_file", file)
        /\ IF refusal # ""
           THEN UNCHANGED <<amvExtracting, amvSent>>
           ELSE /\ amvExtracting' = amvExtracting + 1
                /\ amvSent' = Append(amvSent, SentInstrument(currentInstrument))
        /\ call' = [op |-> "methodFileChange", file |-> file, refused |-> refusal # "",
                    sent |-> SentInstrument(currentInstrument)]
        /\ UNCHANGED <<fuVars, dcVars, dbVars, auVars, hiVars, edVars, seVars, chVars, lgVars,
                       now, amvText, amvAttr, amvChecked, currentInstrument, amvSection,
                       amvRequired, amvPending, amvPc>>

\* extractMethodParameters resumes: the backend answered with parameters, or
\* with an error, which only shows a message
AmvExtractArrives(ok, parameters) ==
    /\ amvExtracting > 0
    /\ amvExtracting' = amvExtracting - 1
    /\ amvText' = IF ok THEN populateExtractedParameters(amvText, currentInstrument, parameters)
                  ELSE amvText
    /\ \E i \in DOMAIN amvSent :
           /\ amvSent' = SubSeq(amvSent, 1, i - 1) \o SubSeq(amvSent, i + 1, Len(amvSent))
           /\ call' = IF ok THEN [op |-> "populateExtractedParameters",
                                  parameters |-> parameters, before |-> amvText,
                                  sent |-> amvSent[i]]
                      ELSE [op |-> "extractFailed"]
    /\ UNCHANGED <<fuVars, dcVars, dbVars, auVars, hiVars, edVars, seVars, chVars, lgVars, now, amvAttr, amvChecked,
                   currentInstrument, amvSection, amvRequired, amvFieldError, amvSaved,
                   amvPending, amvPc, amvFile>>

\* the parameters the backend answers with
Str(t) == [type |-> "string", text |-> t]

ExtractResponses ==
    {[k \in {"wavelength", "flow_rate"} |-> IF k = "wavelength" THEN Str("280") ELSE Str("1.2")],
     [k \in {"wavelength", "column"} |->
         IF k = "wavelength" THEN [type |-> "number", text |-> "0"] ELSE Str("C18")],
     [k \in {"weight_standard", "concentration", "notes"} |->
         IF k = "weight_standard" THEN Str("10")
         ELSE IF k = "concentration" THEN [type |-> "object", text |-> ""]
         ELSE Str("n")]}

\* the AMV page before loadSavedData, with nothing stored or the form of an
\* earlier visit on which hplc was picked
InitExtract ==
    /\ now = PageLoadTime
    /\ call = NoCall
    /\ amvText = AmvBlankText
    /\ amvAttr = AmvDeclaredAttr
    /\ amvChecked = {}
    /\ currentInstrument = ""
    /\ amvSection = ""
    /\ amvRequired = {}
    /\ amvFieldError = AmvNoErrors
    /\ amvSaved \in {NoItem, AmvStored(PageLoadTime - 1)}
    /\ amvPending = 0
    /\ amvPc = "constructing"
    /\ FuFresh
    /\ DcFresh
    /\ RestFresh

NextExtract ==
    \/ AmvLoadSavedData
    \/ \E t \in {"uv", "hplc"} : AmvSelectInstrument(t)
    \/ \E v \in {"300", " "} : AmvInput("hplc_wavelength", v)
    \/ \E file \in MethodFiles : AmvMethodFileChosen(file)
    \/ \E file \in MethodFiles : AmvMethodFileDropped(file)
    \/ \E parameters \in ExtractResponses : AmvExtractArrives(TRUE, parameters)
    \/ \E parameters \in ExtractResponses : AmvExtractArrives(FALSE, parameters)

SpecExtract == InitExtract /\ [][NextExtract]_vars

\* the key-to-field table, by the instrument selected on the form
FieldOfKey ==
    [hplc |-> [wavelength |-> "hplc_wavelength", flow_rate |-> "hplc_flow_rate",
               injection_volume |-> "hplc_injection_volume",
               weight_standard |-> "hplc_weight_standard",
               weight_sample |-> "hplc_weight_sample",
               concentration |-> "hplc_final_concentration_standard"],
     other |-> [wavelength |-> "uv_wavelength", flow_rate |-> "hplc_flow_rate",
                injection_volume |-> "hplc_injection_volume",
                weight_standard |-> "uv_weight_standard",
                weight_sample |-> "uv_weight_sample",
                concentration |-> "uv_final_concentration_standard"]]

\* C19: populateExtractedParameters leaves every non-empty field unchanged and
\* writes a returned value only to the field the key-to-field table assigns to
\* its key for the instrument selected on the form
C19_ExtractionWritesEmptyMappedFields ==
    call.op = "populateExtractedParameters" =>
        LET table == IF CheckedInstrument(amvChecked) = "hplc"
                     THEN FieldOfKey.hplc ELSE FieldOfKey.other
        IN  \A n \in AmvTextNames :
                /\ call.before[n] # "" => amvText[n] = call.before[n]
                /\ amvText[n] # call.before[n] =>
                       \E k \in DOMAIN call.parameters \cap DOMAIN table :
                           table[k] = n /\ amvText[n] = call.parameters[k].text

(***************************************************************************)
(* SpecParams: the required flags in #documentParameters.                  *)
(***************************************************************************)

\* the types the page is opened with in the parameter type of its URL
UrlTypes == {"PV", "Stability"}

\* the page after the constructor: loadInitialParameters cloned the template
\* of the checked first radio, whose fields carry required as the markup of
\* the template does, here nowhere; with type=<t> in the URL
\* handleUrlParameters then selected that type
InitParams ==
    /\ now = PageLoadTime
    /\ call = NoCall
    /\ AmvFresh
    /\ FuFresh
    /\ draft \in {NoItem, StabilityDraft(PageLoadTime - 1), ForeignDraft(PageLoadTime - 1)}
    /\ dcFirstRadio = "AMV"
    /\ \/ /\ dcType = "AMV"
          /\ dcChecked = 1
          /\ dcRendered = "AMV"
          /\ dcRequired = {}
       \/ \E t \in UrlTypes :
             /\ dcType = t
             /\ dcChecked = RadioWithValue("AMV", t)
             /\ dcRendered = TemplateFor(t)
             /\ dcRequired = setDocumentTypeRequirements(t, TemplateFor(t))
    /\ dcText = DcBlankText
    /\ dcParam = DcBlankParams
    /\ dcTemplate = DcBlankParams
    /\ dcLoadTimer = TRUE
    /\ dcRestore = NoItem
    /\ dcNumPending = 0
    /\ dcRequest = NoItem
    /\ dcInFlight = 0
    /\ dcParsing = 0
    /\ dcDisabled = FALSE
    /\ dcNav = "none"
    /\ hasFileManager = TRUE
    /\ RestFresh

NextParams ==
    \/ \E r \in 1..Len(RadioOrder) : DcRadioChange(r)
    \/ \E answer \in BOOLEAN : DcLoadDraft(answer)
    \/ DcRestoreTimer
    \/ \E v \in {"T", ""} : DcInput("title", v)

SpecParams == InitParams /\ [][NextParams]_vars

\* the requirement rule of each document type
RequirementRule ==
    [AMV |-> {"active_ingredient", "analytical_method"},
     PV |-> {"process_name", "batch_size"},
     Stability |-> {"study_type", "storage_conditions"},
     Degradation |-> {"degradation_type", "stress_conditions"},
     Compatibility |-> {"drug_name", "excipients", "storage_conditions", "duration"}]

\* C21: whenever parameters are loaded (after the initial load, a type change,
\* a type from the URL or a restore) the fields flagged required in the
\* parameter container are exactly the rendered fields the requirement rule of
\* the current document type names
C21_RequiredFlagsFollowRule ==
    dcRendered # "" =>
        dcRequired = (IF dcType \in DOMAIN RequirementRule THEN RequirementRule[dcType] ELSE {})
                         \cap TemplateFields(dcRendered)

\* the value an interval has after n callbacks none of which cleared it
RECURSIVE CurrentAfter(_, _)
CurrentAfter(timer, n) ==
    IF n = 0 THEN Num(timer.from) ELSE NumAdd(CurrentAfter(timer, n - 1), timer.increment)

\* C22: every interval of animateNumber that runs has run fewer than 20
\* callbacks and is short of its target, so that a callback to come clears it
\* (also an interval whose target is the number displayed); the callback that
\* clears it leaves the element displaying the target
C22_AnimationStopsAtTarget ==
    /\ \A id \in StatIds : \A k \in 1..Len(dbAnim[id]) :
           /\ \E n \in 0..19 : dbAnim[id][k].current = CurrentAfter(dbAnim[id][k], n)
           /\ ~IsZero(dbAnim[id][k].increment)
    /\ (call.op = "animateTick" /\ call.cleared) => dbCounter[call.id] = call.target

(***************************************************************************)
(* DashboardManager.initSearch: the debounce of the search box.  A timeout  *)
(* is the record of the input event that set it; it may run at any moment   *)
(* from 300 ms after it was set, so an input event that arrives while it is *)
(* in `timers` arrives before it ran.                                        *)
(***************************************************************************)
MaxKeys == 3

\* clearTimeout(handle): undefined (0) and handles that already ran clear nothing
clearTimeoutKept(timers, handle) == timers

clearTimeout(timers, handle) == {t \in timers : t.id # handle}

\* what the search box leaves alone, on the dashboard and elsewhere
notDbSe == <<amvVars, fuVars, dcVars, auVars, hiVars, edVars, exVars, chVars, snVars, lgVars>>

notSe == <<notDbSe, dbVars>>

\* initSearch: binds the input listener when #dashboardSearch exists
DbInitSearch ==
    /\ ~dbSearch.bound
    /\ dbSearch' = [dbSearch EXCEPT !.bound = TRUE]
    /\ call' = [op |-> "initSearch"]
    /\ UNCHANGED <<notSe, now>>

\* an input event on #dashboardSearch after the user made its value `value`
DbSearchInput(value) ==
    /\ dbSearch.keys < MaxKeys
    /\ LET id == dbSearch.keys + 1
       IN  dbSearch' =
               IF dbSearch.bound
               THEN [dbSearch EXCEPT
                        !.input = value,
                        !.keys = id,
                        !.timers = clearTimeout(@, dbSearch.searchTimeout)
                                       \cup {[id |-> id, value |-> value]},
                        !.searchTimeout = id]
               ELSE [dbSearch EXCEPT !.input = value, !.keys = id]
    /\ call' = [op |-> "searchInput", value |-> value]
    /\ UNCHANGED <<notSe, now>>

\* the timeout of one input event runs: performSearch(e.target.value)
DbSearchTimeout(timer) ==
    /\ timer \in dbSearch.timers
    /\ LET after == performSearch(dbSearch.input, dbDisplay, dbMarked)
       IN  /\ dbDisplay' = after.display
           /\ dbMarked' = after.marked
           /\ call' = [op |-> "searchTimeout", key |-> timer.id, typed |-> timer.value,
                       query |-> dbSearch.input, keys |-> dbSearch.keys, thrown |-> after.thrown]
    /\ dbSearch' = [dbSearch EXCEPT !.timers = @ \ {timer}]
    /\ UNCHANGED <<notDbSe, now, dbPollTimer, dbStatsPending, dbCounter, dbAnim, dbNotice,
                   dbExporting>>

InitSearch == InitDashboard

NextSearch ==
    \/ DbInitSearch
    \/ \E q \in Queries : DbSearchInput(q)
    \/ \E timer \in dbSearch.timers : DbSearchTimeout(timer)

SpecSearch == InitSearch /\ [][NextSearch]_vars

\* C23: performSearch runs from the search box only for the input event that no
\* other input event followed before its timeout ran, and with the value that
\* event left in the box; at most one timeout is ever waiting
C23_SearchDebounced ==
    /\ \A timer \in dbSearch.timers : timer.id = dbSearch.keys
    /\ call.op = "searchTimeout" =>
           /\ call.key = call.keys
           /\ call.query = call.typed

\* the search ran for the third of three input events
C23_Witness ==
    /\ call.op = "searchTimeout"
    /\ call.key = MaxKeys
    /\ call.query = "amv"
    /\ dbDisplay # clearSearch.display

(***************************************************************************)
(* FileUploadManager: the change event handleFileSelection dispatches on    *)
(* the input whose change listener called it.  dispatchEvent runs the       *)
(* listeners before it returns, so the runs nest; the engine ends the       *)
(* nesting with a RangeError when its call stack is exhausted.              *)
(***************************************************************************)
\* what the login page of login.js leaves alone, the dashboard aside
notLg == <<amvVars, fuVars, dcVars, hiVars, edVars, exVars, seVars, chVars, snVars>>

\* the nested runs of the listener the call stack of the engine has room for
StackLimit == 4

notFuCh == <<amvVars, dcVars, dbVars, auVars, hiVars, edVars, exVars, seVars, snVars, lgVars>>

\* the change listener of bindFileInputs runs for input i holding its file:
\* handleFileSelection up to its dispatchEvent
ChangeListenerRun(i, depth) ==
    LET f == fuFiles[i]
        r == validateFile(f, getFileTypeFromInput(i))
    IN  /\ fuPreview' = IF f # NoFile /\ r.ok THEN fuPreview \cup {i} ELSE fuPreview
        /\ fuBanner' = IF f # NoFile /\ ~r.ok THEN r.message ELSE fuBanner
        /\ fuChange' = IF f # NoFile /\ r.ok
                       THEN [depth |-> depth, input |-> i]
                       ELSE [depth |-> 0, input |-> "none"]
        /\ call' = [op |-> "changeListener", input |-> i, depth |-> depth,
                    dispatches |-> (f # NoFile /\ r.ok)]

\* the user browses to file f for input i: the browser sets input.files and
\* fires change
FuBrowse(i, f) ==
    /\ fuChange.depth = 0
    /\ fuFiles[i] # f
    /\ fuFiles' = [fuFiles EXCEPT ![i] = f]
    /\ LET f0 == f
           r == validateFile(f0, getFileTypeFromInput(i))
       IN  /\ fuPreview' = IF r.ok THEN fuPreview \cup {i} ELSE fuPreview
           /\ fuBanner' = IF r.ok THEN fuBanner ELSE r.message
           /\ fuChange' = IF r.ok THEN [depth |-> 1, input |-> i]
                          ELSE [depth |-> 0, input |-> "none"]
           /\ call' = [op |-> "changeListener", input |-> i, depth |-> 1, dispatches |-> r.ok]
    /\ UNCHANGED <<notFuCh, now, fuRequired, pageLabel, fuProgress>>

\* input.dispatchEvent(new Event('change')) of handleFileSelection: the listener
\* runs again, inside the run that dispatched
FuDispatchChange ==
    /\ fuChange.depth > 0
    /\ fuChange.depth < StackLimit
    /\ ChangeListenerRun(fuChange.input, fuChange.depth + 1)
    /\ UNCHANGED <<notFuCh, now, fuFiles, fuRequired, pageLabel, fuProgress>>

\* the call stack is exhausted: the innermost run throws RangeError, which
\* dispatchEvent reports, and the runs return
FuStackExhausted ==
    /\ fuChange.depth = StackLimit
    /\ fuChange' = [depth |-> 0, input |-> "none"]
    /\ call' = [op |-> "rangeError", input |-> fuChange.input, depth |-> fuChange.depth]
    /\ UNCHANGED <<notFuCh, now, fuVars>>

InitDispatch == InitFiles

NextDispatch ==
    \/ \E i \in FileInputs, f \in {GoodDoc, BadDoc} : FuBrowse(i, f)
    \/ FuDispatchChange
    \/ FuStackExhausted
    \/ \E i \in FileInputs : fuChange.depth = 0 /\ RemoveFile(i)

SpecDispatch == InitDispatch /\ [][NextDispatch]_vars

\* C24: handling one file selection ends by itself: no run of the change
\* listener started by the change event of handleFileSelection dispatches a
\* change event again, so the runs never nest up to the limit of the call stack
C24_SelectionHandlingEnds ==
    /\ fuChange.depth < StackLimit
    /\ (call.op = "changeListener" /\ call.depth > 1) => ~call.dispatches

\* C25: after a selection was handled, a file input holds a file only if that
\* file passes validateFile for the input
C25_NoInvalidFileSelected ==
    \A i \in FileInputs :
        fuFiles[i] # NoFile => validateFile(fuFiles[i], getFileTypeFromInput(i)).ok

\* C26: from the success response of a create request until the delayed
\* navigation the submit control is disabled, and no create request is sent
C26_NoCreateAfterSuccess ==
    dcNav = "timer" =>
        /\ dcDisabled
        /\ ~(call.op = "handleFormSubmission" /\ call.sent)

(***************************************************************************)
(* AMVManager: the form is filled in, saved by its listeners, and the page  *)
(* is loaded again.                                                        *)
(***************************************************************************)
\* the AMV page is loaded again: a new form and a new AMVManager, whose
\* constructor is about to call loadSavedData; localStorage is what it was,
\* and the requests of the page that went are answered to nobody
AmvPageReload ==
    /\ amvPc = "ready"
    /\ amvSaved.present
    /\ amvPending' = 0
    /\ amvExtracting' = 0
    /\ amvSent' = <<>>
    /\ amvFile' = NoMethodFile
    /\ amvText' = AmvBlankText
    /\ amvChecked' = {}
    /\ currentInstrument' = ""
    /\ amvSection' = ""
    /\ amvRequired' = {}
    /\ amvFieldError' = AmvNoErrors
    /\ amvPc' = "constructing"
    /\ call' = [op |-> "reload"]
    /\ UNCHANGED <<fuVars, dcVars, dbVars, auVars, hiVars, edVars, seVars, chVars, lgVars,
                   now, amvAttr, amvSaved>>

RoundTripBoxes == {<<"val_params", "linearity">>, <<"val_params", "recovery">>,
                   <<"parameters_to_validate", "dissolution">>}

InitRoundTrip == InitDashboard

NextRoundTrip ==
    \/ \E v \in {"T", ""} : AmvInput("document_title", v)
    \/ \E b \in RoundTripBoxes : AmvToggleBox(b[1], b[2])
    \/ \E t \in {"uv", "hplc"} : AmvSelectInstrument(t)
    \/ AmvPageReload
    \/ AmvLoadSavedData

SpecRoundTrip == InitRoundTrip /\ [][NextRoundTrip]_vars

\* C27: after loadSavedData restored a saved record on a fresh page, the text
\* values, the checked boxes and radio and the current instrument are the saved
\* ones: saveFormData would write the record again, apart from its timestamp
C27_DraftRoundTrip ==
    (call.op = "loadSavedData" /\ call.restored) =>
        LET again == SavedItem(amvText, amvChecked, currentInstrument, now)
        IN  /\ again.data = call.item.data
            /\ currentInstrument = call.item.instrument
            /\ again.instrument = call.item.instrument

\* C28: the fields an extraction response fills are those of the key-to-field
\* mapping for the instrument_type that was sent with its request
C28_MappingOfRequestInstrument ==
    call.op = "populateExtractedParameters" =>
        amvText = populateExtractedParameters(call.before, call.sent, call.parameters)

(***************************************************************************)
(* AMVManager.bindConcentrationCalculations: input events on the weights    *)
(* and the standard concentration; nobody types into the sample field.      *)
(***************************************************************************)
TypedNumbers == {"", "5", "10"}

InitConc == InitDashboard

NextConc ==
    \/ \E name \in UvCalcFields, v \in TypedNumbers : AmvInput(name, v)
    \/ \E name \in {"hplc_weight_standard", "hplc_final_concentration_standard"} :
          AmvInput(name, "10")

SpecConc == InitConc /\ [][NextConc]_vars

\* C29: with the sample-concentration field never typed into, after any input
\* events on the other three fields it is empty or holds, with three decimals,
\* (sampleWeight / standardWeight) * standardConcentration of the current values
C29_SampleFollowsInputs ==
    \A prefix \in {"uv", "hplc"} :
        LET Read(t) == ExactValue(IF t = "" THEN "0" ELSE t)
            ws     == amvText[prefix \o "_weight_standard"]
            wsam   == amvText[prefix \o "_weight_sample"]
            conc   == amvText[prefix \o "_final_concentration_standard"]
            sample == amvText[prefix \o "_final_concentration_sample"]
        IN  \/ sample = ""
            \/ /\ ExactPositive(Read(ws))
               /\ ExactPositive(Read(conc))
               /\ IsThreeDecimalsOf(sample, Read(wsam), Read(ws), Read(conc))

(***************************************************************************)
(* Sign-in: the backend's verification of the ID token and the navigation   *)
(* to the dashboard, in handleAuthSuccess of the page script (used by       *)
(* AuthManager and by the redirect sign-in) and in the two listeners of the *)
(* login page of login.js.                                                  *)
(***************************************************************************)
\* how getIdToken, the POST of /auth/verify and response.json() can end: one
\* of them rejects, or the backend's JSON is read
VerifyAnswers ==
    {[kind |-> "tokenRejected", success |-> FALSE, error |-> ""],
     [kind |-> "fetchRejected", success |-> FALSE, error |-> ""],
     [kind |-> "json", success |-> TRUE, error |-> ""],
     [kind |-> "json", success |-> FALSE, error |-> ""],
     [kind |-> "json", success |-> FALSE, error |-> "Invalid token"]}

\* variant: the page navigates whatever the verification answered
VerifySucceededAlways(answer) == TRUE

\* if (result.success), reached only when nothing rejected
VerifySucceeded(answer) == answer.kind = "json" /\ answer.success

\* the error the catch receives when the verification did not succeed: the
\* rejection, or new Error(result.error || fallback)
VerifyError(answer, fallback) ==
    IF answer.kind = "tokenRejected"
    THEN [code |-> "auth/network-request-failed", message |-> "Network request failed"]
    ELSE IF answer.kind = "fetchRejected" THEN [code |-> "", message |-> "Failed to fetch"]
    ELSE [code |-> "", message |-> IF answer.error # "" THEN answer.error ELSE fallback]

\* handleAuthSuccess called by handleLogin or handleRegister settles, and the
\* finally of the handler runs
AuHandleAuthSuccess(f, answer) ==
    /\ AuVerifySettles(f, IF VerifySucceeded(answer) THEN NoError
                          ELSE VerifyError(answer, "Authentication failed"))
    /\ call' = [op |-> "handleAuthSuccess", page |-> f, answer |-> answer]

\* the click listener of bindGoogleAuth, on #googleLogin of the login page or
\* #googleRegister of the register page: handleGoogleAuth up to its await of
\* signInWithRedirect; the model follows one signInWithRedirect at a time
AuGoogleClick(f) ==
    /\ auRedirect = NoRedirect
    /\ ~auNav[f]
    /\ auRedirect' = [phase |-> "pending", page |-> f]
    /\ call' = [op |-> "googleAuthClick", page |-> f]
    /\ UNCHANGED <<notLg, dbVars, now, auVars, lg>>

\* handleGoogleAuth resumes on the page of the click: signInWithRedirect
\* rejects and the catch shows its message, whatever the form of the page is
\* doing, or the browser leaves the page for the provider, and a handleLogin
\* or handleRegister in flight goes with the page
AuGoogleAuth(f, rejected) ==
    /\ auRedirect = [phase |-> "pending", page |-> f]
    /\ ~auNav[f]
    /\ IF rejected
       THEN /\ auError' = [auError EXCEPT ![f] =
                   AuShowError("Google authentication failed. Please try again.")]
            /\ auRedirect' = NoRedirect
            /\ UNCHANGED <<auButton, auPhase>>
       ELSE /\ auRedirect' = [phase |-> "away", page |-> f]
            /\ auButton' = [auButton EXCEPT ![f] = IdleButton]
            /\ auPhase' = [auPhase EXCEPT ![f] = "idle"]
            /\ UNCHANGED auError
    /\ call' = [op |-> "handleGoogleAuth", page |-> f, rejected |-> rejected]
    /\ UNCHANGED <<notLg, dbVars, now, auNav, lg>>

\* the provider sends the browser back: the page the sign-in left is loaded
\* again and getRedirectResult settles with a user, with null or with an error
AuRedirectResult(outcome) ==
    /\ auRedirect.phase = "away"
    /\ auRedirect' = IF outcome = "user" THEN [auRedirect EXCEPT !.phase = "verify"]
                     ELSE NoRedirect
    /\ auError' = [auError EXCEPT ![auRedirect.page] =
                       IF outcome = "error" THEN AuShowError("Firebase: Error (auth/internal-error).")
                       ELSE [shown |-> FALSE, text |-> ""]]
    /\ call' = [op |-> "getRedirectResult", page |-> auRedirect.page, outcome |-> outcome]
    /\ UNCHANGED <<notLg, dbVars, now, auButton, auPhase, auNav, lg>>

\* handleAuthSuccess called with the user of the redirect result settles, on
\* the page the provider came back to
AuRedirectVerified(answer) ==
    /\ auRedirect.phase = "verify"
    /\ auRedirect' = NoRedirect
    /\ IF VerifySucceeded(answer)
       THEN /\ auNav' = [auNav EXCEPT ![auRedirect.page] = TRUE]
            /\ UNCHANGED auError
       ELSE /\ auError' = [auError EXCEPT ![auRedirect.page] =
                   AuShowError(VerifyError(answer, "Authentication failed").message)]
            /\ UNCHANGED auNav
    /\ call' = [op |-> "handleAuthSuccess", page |-> auRedirect.page, answer |-> answer]
    /\ UNCHANGED <<notLg, dbVars, now, auButton, auPhase, lg>>

\* login.js: the submit listener of #loginForm up to its first await
LgSubmit ==
    /\ ~lg.button.disabled
    /\ ~lg.nav
    /\ lg.form = "idle"
    /\ lg' = [lg EXCEPT !.button = [disabled |-> TRUE, spinner |-> TRUE],
                        !.error.shown = FALSE,
                        !.form = "provider"]
    /\ call' = [op |-> "loginSubmit"]
    /\ UNCHANGED <<notLg, dbVars, auVars, auRedirect, now>>

\* login.js: the catch and the finally of the submit listener
LgFormFails(error) ==
    [lg EXCEPT !.error = [shown |-> TRUE,
                          text |-> IF error.message # "" THEN error.message
                                   ELSE "Login failed. Please try again."],
               !.button = IdleButton,
               !.form = "idle"]

\* login.js: signInWithEmailAndPassword settles
LgProviderAnswers(error) ==
    /\ lg.form = "provider"
    /\ ~lg.nav
    /\ lg' = IF error # NoError THEN LgFormFails(error) ELSE [lg EXCEPT !.form = "verify"]
    /\ call' = [op |-> "loginProvider", failed |-> error # NoError]
    /\ UNCHANGED <<notLg, dbVars, auVars, auRedirect, now>>

\* login.js: the submit listener resumes after getIdToken, /auth/verify and
\* response.json()
LgVerified(answer) ==
    /\ lg.form = "verify"
    /\ ~lg.nav
    /\ lg' = IF VerifySucceeded(answer)
             THEN [lg EXCEPT !.nav = TRUE, !.button = IdleButton, !.form = "idle"]
             ELSE LgFormFails(VerifyError(answer, "Login failed"))
    /\ call' = [op |-> "loginVerified", page |-> "loginjs", answer |-> answer]
    /\ UNCHANGED <<notLg, dbVars, auVars, auRedirect, now>>

\* login.js: the click listener of #googleLogin up to its first await
LgGoogleClick ==
    /\ lg.google = "idle"
    /\ ~lg.nav
    /\ lg' = [lg EXCEPT !.google = "popup"]
    /\ call' = [op |-> "googleClick"]
    /\ UNCHANGED <<notLg, dbVars, auVars, auRedirect, now>>

\* login.js: the catch of the click listener
LgGoogleFails ==
    [lg EXCEPT !.error = [shown |-> TRUE, text |-> "Google login failed. Please try again."],
               !.google = "idle"]

\* login.js: signInWithPopup settles
LgPopupAnswers(error) ==
    /\ lg.google = "popup"
    /\ ~lg.nav
    /\ lg' = IF error # NoError THEN LgGoogleFails ELSE [lg EXCEPT !.google = "verify"]
    /\ call' = [op |-> "googlePopup", failed |-> error # NoError]
    /\ UNCHANGED <<notLg, dbVars, auVars, auRedirect, now>>

\* login.js: the click listener resumes after getIdToken, /auth/verify and
\* response.json()
LgGoogleVerified(answer) ==
    /\ lg.google = "verify"
    /\ ~lg.nav
    /\ lg' = IF VerifySucceeded(answer)
             THEN [lg EXCEPT !.nav = TRUE, !.google = "idle"]
             ELSE LgGoogleFails
    /\ call' = [op |-> "googleVerified", page |-> "loginjs", answer |-> answer]
    /\ UNCHANGED <<notLg, dbVars, auVars, auRedirect, now>>

InitAuth == InitDashboard

\* the browser shows one page
OnAuthLogin == AuAsLoaded("register") /\ lg.form = "idle" /\ lg.google = "idle"
               /\ ~lg.error.shown /\ ~lg.nav

OnAuthRegister == AuAsLoaded("login") /\ LgAsLoaded

OnLoginJs == AuAsLoaded("login") /\ AuAsLoaded("register") /\ auRedirect = NoRedirect

\* the page of AuthManager that is shown, with the redirect sign-in, if any, its own
OnAuth(f) ==
    /\ IF f = "login" THEN OnAuthLogin ELSE OnAuthRegister
    /\ auRedirect.page \in {"", f}

NextAuth ==
    \/ OnAuth("login") /\ auRedirect.phase \in {"none", "pending"} /\ AuLogin
    \/ OnAuth("login") /\ \E error \in AuthErrors \cup {NoError} :
                              AuProviderAnswers("login", error)
    \/ OnAuth("login") /\ \E answer \in VerifyAnswers : AuHandleAuthSuccess("login", answer)
    \/ \E f \in AuPages : OnAuth(f) /\ AuGoogleClick(f)
    \/ \E f \in AuPages : OnAuth(f) /\ \E rejected \in BOOLEAN : AuGoogleAuth(f, rejected)
    \/ OnAuth(auRedirect.page) /\ \E outcome \in {"user", "null", "error"} :
                                      AuRedirectResult(outcome)
    \/ OnAuth(auRedirect.page) /\ \E answer \in VerifyAnswers : AuRedirectVerified(answer)
    \/ OnAuth("register") /\ auRedirect.phase \in {"none", "pending"}
                          /\ AuRegister("Abcdefg1", "Abcdefg1")
    \/ OnAuth("register") /\ \E error \in AuthErrors \cup {NoError} :
                                 AuProviderAnswers("register", error)
    \/ OnAuth("register") /\ \E error \in AuthErrors \cup {NoError} : AuProfileAnswers(error)
    \/ OnAuth("register") /\ \E answer \in VerifyAnswers :
                                 AuHandleAuthSuccess("register", answer)
    \/ OnLoginJs /\ LgSubmit
    \/ OnLoginJs /\ \E error \in AuthErrors \cup {NoError} : LgProviderAnswers(error)
    \/ OnLoginJs /\ \E answer \in VerifyAnswers : LgVerified(answer)
    \/ OnLoginJs /\ LgGoogleClick
    \/ OnLoginJs /\ \E error \in AuthErrors \cup {NoError} : LgPopupAnswers(error)
    \/ OnLoginJs /\ \E answer \in VerifyAnswers : LgGoogleVerified(answer)

SpecAuth == InitAuth /\ [][NextAuth]_vars

VerifyOps == {"handleAuthSuccess", "loginVerified", "googleVerified"}

\* whether the page of the last handler shows an error text
ErrorSurfaced(page, auErrorNow, lgNow) ==
    IF page = "loginjs" THEN lgNow.error.shown /\ lgNow.error.text # ""
    ELSE auErrorNow[page].shown /\ auErrorNow[page].text # ""

\* C30: a page navigates to the dashboard only in the step in which the
\* backend's verification of the ID token answered success; a provider sign-in
\* alone never navigates, and a verification that answered success:false or
\* that failed never navigates and shows an error on the page
C30_NavigationOnlyAfterVerification ==
    [][/\ (auNav' # auNav \/ lg'.nav # lg.nav) =>
              /\ call'.op \in VerifyOps
              /\ call'.answer.kind = "json"
              /\ call'.answer.success
       /\ (call'.op \in VerifyOps /\ ~(call'.answer.kind = "json" /\ call'.answer.success)) =>
              /\ auNav' = auNav
              /\ lg'.nav = lg.nav
              /\ ErrorSurfaced(call'.page, auError', lg')]_vars

\* the Google listener of login.js navigated on a success answer, after the
\* form of the same page had shown the error of a success:false answer
C30_Witness ==
    /\ call.op = "googleVerified"
    /\ call.answer.success
    /\ lg.nav
    /\ lg.error.text = "Invalid token"

\* handleAuthSuccess navigated for AuthManager's login form
C30_WitnessShared ==
    /\ call.op = "handleAuthSuccess"
    /\ call.answer.success
    /\ auNav["login"]

=============================================================================
